---- MODULE Spec2Model ----
(***************************************************************************)
(* Model of the Google Sheets MCP server (gsheets_mcp.py, server.py):      *)
(* the backoff_handler retry decorator, the four tools and get_column_name.*)
(*                                                                         *)
(* Python strings are sequences of code points (chr(65) is <<65>>), so     *)
(* that chr(), str() and startswith() are modelled by what they compute.   *)
(***************************************************************************)
EXTENDS Integers, Sequences, FiniteSets, TLC

\* ------------------------------------------------------------------ bounds
MaxRetriesBound == 5      \* largest max_retries tried for a free-standing wrapped call
MaxInitialDelay == 2      \* largest initial_delay tried for a free-standing wrapped call
MaxRows == 2              \* most rows of an enumerated grid
MaxCols == 2              \* most cells in a row of an enumerated grid
MaxWide == 28             \* widest single-row grid (reaches columns past "Z")
MaxTall == 11             \* tallest single-column grid (reaches two-digit row numbers)
MaxFormulas == 3          \* most formula cells of a grid given to a whole tool call
MaxSheets == 3            \* most worksheets of the spreadsheet before the call
MaxColumn == 730          \* largest column number given to get_column_name
MaxFiles == 3             \* most spreadsheet files a listing returns

\* ------------------------------------------------------- program constants
RATE_LIMIT_STATUS == 429  \* status_code tested by backoff_handler
ORD_EQ == 61              \* ord('=')
ORD_A == 65               \* ord('A'), the 65 of chr(65 + col_idx)
ORD_ZERO == 48            \* ord('0'), first decimal digit written by str()
ORD_AT == 64              \* the 64 of chr(64 + cols_num)
ORD_ONE == 49             \* ord('1')
ORD_COLON == 58           \* ord(':')
DEFAULT_RETRIES == 5      \* max_retries of every wrapped call but the formula write
FORMULA_RETRIES == 3      \* max_retries of update_cell_formula
INITIAL_DELAY == 1        \* initial_delay of every wrapped call
SERVER_TRIES == 6         \* server.py: for i in range(6)

VARIABLES
    \* --- one wrapped call (backoff_handler.wrapper) ---
    wpc,             \* position in wrapper: "idle", "loop", "sleep", "done"
    max_retries,     \* decorator argument
    initial_delay,   \* decorator argument
    retry,           \* loop variable of `for retry in range(max_retries)`
    delay,           \* local `delay`
    last_exception,  \* local `last_exception`
    wresult,         \* how the wrapper ended: returned value or raised exception
    \* --- what the wrapped call did, as seen from outside ---
    outcomes,        \* outcome of each invocation of func, in order
    sleeps,          \* duration of each time.sleep, in order
    \* --- update_google_sheet: arguments ---
    spreadsheet_url,
    data_and_formulas,
    worksheet_name,
    set_basic_filter,
    freeze_rows,
    set_bold_header,
    \* --- the spreadsheet on the service: titles of its worksheets, in order ---
    titles,
    \* --- update_google_sheet: locals ---
    pc,              \* position in the tool function
    worksheet,       \* the chosen worksheet, as its position in titles (0: none yet)
    regular_data,
    formulas,        \* dict cell_ref -> formula, as its list of items in insertion order
    fidx,            \* position of the formulas.items() loop
    formula_errors,
    result,          \* the returned dictionary
    \* --- the calls made to the service, in order ---
    log,
    \* --- the other tools: which tool is called, and its arguments ---
    tool,
    title,
    share_with,
    limit,
    offset,
    \* --- the service: how many spreadsheet files match a listing ---
    files,
    \* --- the keys of the returned dictionary besides status and message ---
    payload,
    \* --- get_column_name: its argument and what it returned ---
    col_n,
    col_name,
    \* --- several tool calls in one server process: the coroutine of each
    \* call, and the one the event loop's thread is running (0: none) ---
    tasks,
    running

wvars == <<wpc, max_retries, initial_delay, retry, delay, last_exception,
           wresult, outcomes, sleeps>>

\* arguments and service state
avars == <<spreadsheet_url, data_and_formulas, worksheet_name, set_basic_filter,
           freeze_rows, set_bold_header>>

\* everything of the tool function
hvars == <<avars, titles, pc, worksheet, regular_data, formulas, fidx,
           formula_errors, result, log>>

\* what update_google_sheet never touches
xvars == <<tool, title, share_with, limit, offset, files, payload, col_n, col_name,
           tasks, running>>

vars == <<wvars, hvars, xvars>>

\* ------------------------------------------------------------- exceptions
\* An exception object; id is the number of the invocation that raised it
\* (object identity), cls/status_code are what the except clauses look at.
NoException == [cls |-> "None", status_code |-> 0, id |-> 0]
APIError(status, k) == [cls |-> "APIError", status_code |-> status, id |-> k]
OtherError(k) == [cls |-> "Exception", status_code |-> 0, id |-> k]

\* What one invocation of the wrapped function can do.
FuncOutcomes(k) ==
    { [kind |-> "return", exc |-> NoException, val |-> k],
      [kind |-> "raise", exc |-> APIError(RATE_LIMIT_STATUS, k), val |-> 0],
      [kind |-> "raise", exc |-> APIError(500, k), val |-> 0],
      [kind |-> "raise", exc |-> OtherError(k), val |-> 0] }

Pending == [kind |-> "pending", exc |-> NoException, val |-> 0]
\* `return None` (falling off the end of wrapper)
ReturnNone == [kind |-> "return", exc |-> NoException, val |-> 0]

\* except gspread.exceptions.APIError as e
IsAPIError(e) == e.cls = "APIError"

\* hasattr(e, 'response') and getattr(e.response, 'status_code', None) == 429
IsRateLimitMutAny(e) == TRUE
IsRateLimit(e) == e.status_code = RATE_LIMIT_STATUS

\* for retry in range(max_retries): is there another iteration
InRangeMutInclusive(i, n) == i <= n
InRange(i, n) == i < n

\* delay *= 2
NextDelayMutConstant(d) == d
NextDelayMutLinear(d) == d + 1
NextDelay(d) == d * 2

\* last_exception = e
RememberMutFirst(old, e) == IF old = NoException THEN e ELSE old
Remember(old, e) == e

\* ---------------------------------------------------------- Python values
\* A value is [t |-> type name, v |-> payload]: the code points of a str, the
\* items of a list, <<n>> for an int, <<0>> or <<1>> for a bool.
NoneVal == [t |-> "None", v |-> <<>>]
PyStr(s) == [t |-> "str", v |-> s]
PyInt(n) == [t |-> "int", v |-> <<n>>]
PyBool(b) == [t |-> "bool", v |-> <<IF b THEN 1 ELSE 0>>]
PyList(items) == [t |-> "list", v |-> items]

\* truth value of x, as tested by `if x` / `not x`
Truthy(x) ==
    CASE x.t = "None" -> FALSE
      [] x.t \in {"str", "list"} -> x.v # <<>>
      [] OTHER -> x.v[1] # 0

\* isinstance(x, list), isinstance(x, str)
IsList(x) == x.t = "list"
IsStr(x) == x.t = "str"

\* str(n) for n >= 0: the decimal digits of n
RECURSIVE StrOfInt(_)
StrOfInt(n) ==
    IF n < 10 THEN <<ORD_ZERO + n>>
    ELSE StrOfInt(n \div 10) \o <<ORD_ZERO + (n % 10)>>

\* ------------------------------------------------ server.py get_column_name
\* "" if n == 0 else get_column_name((n - 1) // 26) + chr((n - 1) % 26 + ord("A"))
RECURSIVE get_column_nameMutNoCarry(_)
get_column_nameMutNoCarry(n) ==
    IF n = 0 THEN <<>>
    ELSE get_column_nameMutNoCarry(n \div 26) \o <<((n - 1) % 26) + ORD_A>>

RECURSIVE get_column_name(_)
get_column_name(n) ==
    IF n = 0 THEN <<>>
    ELSE get_column_name((n - 1) \div 26) \o <<((n - 1) % 26) + ORD_A>>

\* ------------------------------------- update_google_sheet: the first pass
\* cell_value.startswith('=')
StartsWithEqMutContains(s) == \E i \in DOMAIN s : s[i] = ORD_EQ
StartsWithEq(s) == Len(s) >= 1 /\ s[1] = ORD_EQ

\* isinstance(cell_value, str) and cell_value.startswith('=')
IsFormula(cell_value) == IsStr(cell_value) /\ StartsWithEq(cell_value.v)

\* col_letter = chr(65 + col_idx); cell_ref = f"{col_letter}{row_idx+1}"
CellRef(row_idx, col_idx) == <<ORD_A + col_idx>> \o StrOfInt(row_idx + 1)

\* formulas[cell_ref] = cell_value on a dict kept as its list of items: an
\* existing key keeps its place and gets the new value, a new key goes last
DictSet(d, k, val) ==
    IF \E i \in DOMAIN d : d[i].key = k
      THEN [i \in DOMAIN d |-> IF d[i].key = k THEN [key |-> k, value |-> val] ELSE d[i]]
      ELSE Append(d, [key |-> k, value |-> val])

\* new_row.append('') instead of the formula
Placeholder == PyStr(<<>>)

\* the inner loop `for col_idx, cell_value in enumerate(row)`, from col_idx on;
\* acc is [new_row, formulas]
RECURSIVE SplitRow(_, _, _, _)
SplitRow(row, row_idx, col_idx, acc) ==
    IF col_idx >= Len(row) THEN acc
    ELSE LET cell_value == row[col_idx + 1] IN
         IF IsFormula(cell_value)
           THEN SplitRow(row, row_idx, col_idx + 1,
                    [new_row |-> Append(acc.new_row, Placeholder),
                     formulas |-> DictSet(acc.formulas, CellRef(row_idx, col_idx),
                                          cell_value)])
           ELSE SplitRow(row, row_idx, col_idx + 1,
                    [new_row |-> Append(acc.new_row, cell_value),
                     formulas |-> acc.formulas])

\* the outer loop `for row_idx, row in enumerate(data_and_formulas)`, from
\* row_idx on; acc is [regular_data, formulas]
RECURSIVE SplitRows(_, _, _)
SplitRows(rows, row_idx, acc) ==
    IF row_idx >= Len(rows) THEN acc
    ELSE LET r == SplitRow(rows[row_idx + 1].v, row_idx, 0,
                           [new_row |-> <<>>, formulas |-> acc.formulas]) IN
         SplitRows(rows, row_idx + 1,
                   [regular_data |-> Append(acc.regular_data, r.new_row),
                    formulas |-> r.formulas])

\* regular_data = []; formulas = {}; first pass over the grid
SplitGrid(grid) == SplitRows(grid.v, 0, [regular_data |-> <<>>, formulas |-> <<>>])

\* ---------------------------------------------------------------- wrapper
\* wrapper entry: delay = initial_delay; last_exception = None
EnterWrapper(mr, idl) ==
    /\ wpc' = "loop"
    /\ max_retries' = mr
    /\ initial_delay' = idl
    /\ retry' = 0
    /\ delay' = idl
    /\ last_exception' = NoException
    /\ wresult' = Pending
    /\ outcomes' = <<>>
    /\ sleeps' = <<>>

\* no wrapped call is running: the wrapper's locals do not exist
WrapperIdle ==
    /\ wpc = "idle"
    /\ max_retries = 0
    /\ initial_delay = 0
    /\ retry = 0
    /\ delay = 0
    /\ last_exception = NoException
    /\ wresult = Pending
    /\ outcomes = <<>>
    /\ sleeps = <<>>

\* the wrapper has returned or raised to its caller
LeaveWrapper ==
    /\ wpc' = "idle"
    /\ max_retries' = 0
    /\ initial_delay' = 0
    /\ retry' = 0
    /\ delay' = 0
    /\ last_exception' = NoException
    /\ wresult' = Pending
    /\ outcomes' = <<>>
    /\ sleeps' = <<>>

\* One loop iteration up to the sleep: try: return func(...) except ...
Attempt ==
    /\ wpc = "loop"
    /\ InRange(retry, max_retries)
    /\ \E o \in FuncOutcomes(Len(outcomes) + 1) :
         /\ outcomes' = Append(outcomes, o)
         /\ IF o.kind = "return"
              THEN /\ wresult' = o
                   /\ wpc' = "done"
                   /\ UNCHANGED last_exception
              ELSE IF IsAPIError(o.exc) /\ IsRateLimit(o.exc)
                THEN /\ last_exception' = Remember(last_exception, o.exc)
                     /\ wpc' = "sleep"
                     /\ UNCHANGED wresult
                ELSE /\ wresult' = o
                     /\ wpc' = "done"
                     /\ UNCHANGED last_exception
    /\ UNCHANGED <<max_retries, initial_delay, retry, delay, sleeps>>
    /\ UNCHANGED <<hvars, xvars>>

\* time.sleep(delay); delay *= 2; next iteration
Sleep ==
    /\ wpc = "sleep"
    /\ sleeps' = Append(sleeps, delay)
    /\ delay' = NextDelay(delay)
    /\ retry' = retry + 1
    /\ wpc' = "loop"
    /\ UNCHANGED <<max_retries, initial_delay, last_exception, wresult, outcomes>>
    /\ UNCHANGED <<hvars, xvars>>

\* after the loop: if last_exception: raise last_exception (else return None)
Exhausted ==
    /\ wpc = "loop"
    /\ ~InRange(retry, max_retries)
    /\ wresult' = IF last_exception # NoException
                    THEN [kind |-> "raise", exc |-> last_exception, val |-> 0]
                    ELSE ReturnNone
    /\ wpc' = "done"
    /\ UNCHANGED <<max_retries, initial_delay, retry, delay, last_exception,
                   outcomes, sleeps>>
    /\ UNCHANGED <<hvars, xvars>>

\* -------------------------------------------------- no tool call in progress
NoResult == [status |-> "none", message |-> <<>>, errors |-> <<>>, has_url |-> FALSE]

NoPayload == [has_data |-> FALSE, spreadsheets |-> <<>>, total_count |-> 0, has_more |-> FALSE]

\* one tool call alone: no coroutine besides it
NoTasks ==
    /\ tasks = <<>>
    /\ running = 0

\* the state outside update_google_sheet when the tool t is the one called
OnlyTool(t) ==
    /\ tool = t
    /\ title = NoneVal
    /\ share_with = NoneVal
    /\ limit = NoneVal
    /\ offset = PyInt(0)
    /\ files = 0
    /\ payload = NoPayload
    /\ col_n = 0
    /\ col_name = <<>>
    /\ NoTasks

NoToolCall(at, grid) ==
    /\ OnlyTool("none")
    /\ pc = at
    /\ spreadsheet_url = NoneVal
    /\ data_and_formulas = grid
    /\ worksheet_name = NoneVal
    /\ set_basic_filter = FALSE
    /\ freeze_rows = 0
    /\ set_bold_header = FALSE
    /\ titles = <<>>
    /\ worksheet = 0
    /\ regular_data = <<>>
    /\ formulas = <<>>
    /\ fidx = 0
    /\ formula_errors = <<>>
    /\ result = NoResult
    /\ log = <<>>

\* --------------------------------------- a free-standing wrapped call
InitBackoff ==
    /\ wpc = "loop"
    /\ max_retries \in -1 .. MaxRetriesBound
    /\ initial_delay \in 1 .. MaxInitialDelay
    /\ retry = 0
    /\ delay = initial_delay
    /\ last_exception = NoException
    /\ wresult = Pending
    /\ outcomes = <<>>
    /\ sleeps = <<>>
    /\ NoToolCall("none", NoneVal)

NextBackoff == Attempt \/ Sleep \/ Exhausted

SpecBackoff == InitBackoff /\ [][NextBackoff]_vars

\* --------------------------------------- the first pass on its own
\* cell values of the enumerated grids
CellValues ==
    { PyStr(<<ORD_EQ, ORD_A>>),   \* "=A"
      PyStr(<<120, ORD_EQ>>),     \* "x="
      PyInt(30) }

RowsUpTo(n, values) == UNION { [1 .. k -> values] : k \in 0 .. n }

\* the grid whose rows are the cell sequences rs
GridOf(rs) == PyList([i \in DOMAIN rs |-> PyList(rs[i])])

\* one row of w cells: True, "", then formulas; and one column of h formulas
WideGrids ==
    { PyList(<<PyList([c \in 1 .. w |->
                         CASE c = 1 -> PyBool(TRUE)
                           [] c = 2 -> PyStr(<<>>)
                           [] OTHER -> PyStr(<<ORD_EQ, ORD_A>>)])>>)
        : w \in 1 .. MaxWide }
TallGrids ==
    { PyList([r \in 1 .. h |-> PyList(<<PyStr(<<ORD_EQ>>)>>)]) : h \in 1 .. MaxTall }

InitSplit ==
    /\ WrapperIdle
    \* every grid of 1..MaxRows rows, each of 0..MaxCols cells (rows may
    \* differ in length), and the wide and the tall grids
    /\ \/ \E h \in 1 .. MaxRows : \E rs \in [1 .. h -> RowsUpTo(MaxCols, CellValues)] :
             NoToolCall("first_pass", GridOf(rs))
       \/ \E g \in WideGrids \cup TallGrids : NoToolCall("first_pass", g)

FirstPass ==
    /\ pc = "first_pass"
    /\ LET r == SplitGrid(data_and_formulas) IN
         /\ regular_data' = r.regular_data
         /\ formulas' = r.formulas
    /\ pc' = "first_pass_done"
    /\ UNCHANGED <<wvars, avars, xvars, titles, worksheet, fidx, formula_errors, result, log>>

NextSplit == FirstPass

SpecSplit == InitSplit /\ [][NextSplit]_vars

\* =================================================================
\* update_google_sheet
\* =================================================================
\* one entry of log: the call, its argument, and how it ended
LogEntry(op, arg) == [op |-> op, arg |-> arg, ok |-> "pending", exc |-> NoException]

\* str(e): the text of an exception, which does not tell which attempt raised it
ExcText(e) == [e EXCEPT !.id = 0]

\* the last call of the log has ended as r says
LogEnded(l, r) ==
    [l EXCEPT ![Len(l)] =
        [@ EXCEPT !.ok = IF r.kind = "raise" THEN "raised" ELSE "ok",
                  !.exc = ExcText(r.exc)]]

\* what a call that goes to the service directly (no wrapper) can do
DirectOutcomes ==
    { [kind |-> "return", exc |-> NoException, val |-> 1],
      [kind |-> "raise", exc |-> APIError(RATE_LIMIT_STATUS, 1), val |-> 0],
      [kind |-> "raise", exc |-> OtherError(1), val |-> 0] }

\* return {"status": ..., "message": ...}
Return(status, message, errors, has_url) ==
    /\ result' = [status |-> status, message |-> message, errors |-> errors,
                  has_url |-> has_url]
    /\ pc' = "returned"

\* does `except Exception` catch e: APIError and the other errors of a
\* remote call, and TypeError, all derive from Exception
CaughtMutOnlyAPIError(e) == e.cls = "APIError"
Caught(e) == e.cls \in {"APIError", "Exception", "TypeError"}

\* except Exception as e:
\*     return {"status": "error", "message": f"<prefix>: {str(e)}"}
ReturnError(prefix, e) ==
    IF Caught(e)
      THEN Return("error", <<prefix>>, <<[ref |-> <<>>, exc |-> ExcText(e)]>>, FALSE)
      ELSE pc' = "escaped" /\ UNCHANGED result

\* the validation block at the top of update_google_sheet
ValidationErrorsMutNoRowCheck(url, data) ==
    (IF ~Truthy(url) \/ ~IsStr(url)
       THEN <<"spreadsheet_url must be a non-empty string">> ELSE <<>>)
    \o (IF ~Truthy(data) THEN <<"Data must not be empty">>
        ELSE IF ~IsList(data) THEN <<"Data must be a list of lists">>
        ELSE <<>>)
ValidationErrors(url, data) ==
    (IF ~Truthy(url) \/ ~IsStr(url)
       THEN <<"spreadsheet_url must be a non-empty string">> ELSE <<>>)
    \o (IF ~Truthy(data) THEN <<"Data must not be empty">>
        ELSE IF ~IsList(data) THEN <<"Data must be a list of lists">>
        ELSE IF \E r \in DOMAIN data.v : ~IsList(data.v[r])
          THEN <<"Each row in data must be a list">>
        ELSE <<>>)

\* validation, then client = init_gspread_client() (a wrapped call)
Validate ==
    /\ pc = "called"
    /\ LET validation_errors == ValidationErrors(spreadsheet_url, data_and_formulas) IN
       IF validation_errors # <<>>
         THEN /\ Return("error", validation_errors, <<>>, FALSE)
              /\ UNCHANGED <<wvars, log>>
         ELSE /\ pc' = "init_gspread_client"
              /\ EnterWrapper(DEFAULT_RETRIES, INITIAL_DELAY)
              /\ log' = Append(log, LogEntry("init_gspread_client", <<>>))
              /\ UNCHANGED result
    /\ UNCHANGED <<avars, xvars, titles, worksheet, regular_data, formulas, fidx, formula_errors>>

\* init_gspread_client() has ended
AfterInitClient ==
    /\ pc = "init_gspread_client"
    /\ wpc = "done"
    /\ log' = LogEnded(log, wresult)
    /\ IF wresult.kind = "raise"
         THEN ReturnError("Error updating spreadsheet", wresult.exc)
         ELSE pc' = "open_by_url" /\ UNCHANGED result
    /\ LeaveWrapper
    /\ UNCHANGED <<avars, xvars, titles, worksheet, regular_data, formulas, fidx, formula_errors>>

\* spreadsheet = client.open_by_url(spreadsheet_url), in its own try/except
OpenByUrl ==
    /\ pc = "open_by_url"
    /\ \E o \in DirectOutcomes :
         /\ log' = LogEnded(Append(log, LogEntry("open_by_url", spreadsheet_url.v)), o)
         /\ IF o.kind = "raise"
              THEN ReturnError("Could not open spreadsheet", o.exc)
              ELSE /\ pc' = IF Truthy(worksheet_name) THEN "worksheets" ELSE "get_worksheet"
                   /\ UNCHANGED result
    /\ UNCHANGED <<wvars, avars, xvars, titles, worksheet, regular_data, formulas, fidx,
                   formula_errors>>

\* for ws in spreadsheet.worksheets(): if ws.title == worksheet_name: ... break
FirstMatchMutLast(ts, name) ==
    IF \E i \in DOMAIN ts : ts[i] = name
      THEN CHOOSE i \in DOMAIN ts : ts[i] = name /\ \A j \in (i + 1) .. Len(ts) : ts[j] # name
      ELSE 0
FirstMatch(ts, name) ==
    IF \E i \in DOMAIN ts : ts[i] = name
      THEN CHOOSE i \in DOMAIN ts : ts[i] = name /\ \A j \in 1 .. i - 1 : ts[j] # name
      ELSE 0

Worksheets ==
    /\ pc = "worksheets"
    /\ \E o \in DirectOutcomes :
         /\ log' = LogEnded(Append(log, LogEntry("worksheets", <<>>)), o)
         /\ IF o.kind = "raise"
              THEN /\ ReturnError("Error updating spreadsheet", o.exc)
                   /\ UNCHANGED worksheet
              ELSE /\ worksheet' = FirstMatch(titles, worksheet_name.v)
                   /\ pc' = IF worksheet' = 0 THEN "add_worksheet" ELSE "first_pass"
                   /\ UNCHANGED result
    /\ UNCHANGED <<wvars, avars, xvars, titles, regular_data, formulas, fidx, formula_errors>>

\* rows=len(data_and_formulas),
\* cols=len(data_and_formulas[0]) if data_and_formulas and data_and_formulas[0] else 1
NewSheetSize(data) ==
    <<Len(data.v), IF Truthy(data) /\ Truthy(data.v[1]) THEN Len(data.v[1].v) ELSE 1>>

\* worksheet = spreadsheet.add_worksheet(title=worksheet_name, rows=..., cols=...)
AddWorksheet ==
    /\ pc = "add_worksheet"
    /\ \E o \in DirectOutcomes :
         /\ log' = LogEnded(Append(log, LogEntry("add_worksheet",
                                                 NewSheetSize(data_and_formulas))), o)
         /\ IF o.kind = "raise"
              THEN /\ ReturnError("Error updating spreadsheet", o.exc)
                   /\ UNCHANGED <<titles, worksheet>>
              ELSE /\ titles' = Append(titles, worksheet_name.v)
                   /\ worksheet' = Len(titles) + 1
                   /\ pc' = "first_pass"
                   /\ UNCHANGED result
    /\ UNCHANGED <<wvars, avars, xvars, regular_data, formulas, fidx, formula_errors>>

\* worksheet = spreadsheet.get_worksheet(0)
GetWorksheet ==
    /\ pc = "get_worksheet"
    /\ \E o \in DirectOutcomes :
         /\ log' = LogEnded(Append(log, LogEntry("get_worksheet", <<>>)), o)
         /\ IF o.kind = "raise"
              THEN /\ ReturnError("Error updating spreadsheet", o.exc)
                   /\ UNCHANGED worksheet
              ELSE /\ worksheet' = 1
                   /\ pc' = "first_pass"
                   /\ UNCHANGED result
    /\ UNCHANGED <<wvars, avars, xvars, titles, regular_data, formulas, fidx, formula_errors>>

\* 'A1:' + chr(64 + cols_num) + '1' with cols_num = len(regular_data[0])
BoldRange(cols_num) == <<ORD_A, ORD_ONE, ORD_COLON>> \o <<ORD_AT + cols_num>> \o <<ORD_ONE>>

\* the wrapped calls of update_google_sheet in program order, each with the
\* condition under which the code reaches it, its retry budget and its call
CallSitesMutBoldFirst ==
    << [site |-> "set_bold_header", max_retries |-> DEFAULT_RETRIES],
       [site |-> "update_data", max_retries |-> DEFAULT_RETRIES],
       [site |-> "set_basic_filter", max_retries |-> DEFAULT_RETRIES],
       [site |-> "freeze_rows", max_retries |-> DEFAULT_RETRIES],
       [site |-> "update_cell_formula", max_retries |-> FORMULA_RETRIES] >>
CallSitesMutFormulaFive ==
    << [site |-> "update_data", max_retries |-> DEFAULT_RETRIES],
       [site |-> "set_basic_filter", max_retries |-> DEFAULT_RETRIES],
       [site |-> "freeze_rows", max_retries |-> DEFAULT_RETRIES],
       [site |-> "set_bold_header", max_retries |-> DEFAULT_RETRIES],
       [site |-> "update_cell_formula", max_retries |-> DEFAULT_RETRIES] >>
CallSites ==
    << [site |-> "update_data", max_retries |-> DEFAULT_RETRIES],
       [site |-> "set_basic_filter", max_retries |-> DEFAULT_RETRIES],
       [site |-> "freeze_rows", max_retries |-> DEFAULT_RETRIES],
       [site |-> "set_bold_header", max_retries |-> DEFAULT_RETRIES],
       [site |-> "update_cell_formula", max_retries |-> FORMULA_RETRIES] >>

SiteIndex(site) == CHOOSE i \in DOMAIN CallSites : CallSites[i].site = site

\* if set_basic_filter: / if freeze_rows: / if set_bold_header: / if formulas:
SiteTaken(site) ==
    CASE site = "update_data" -> TRUE
      [] site = "set_basic_filter" -> set_basic_filter
      [] site = "freeze_rows" -> freeze_rows # 0
      [] site = "set_bold_header" -> set_bold_header
      [] site = "update_cell_formula" -> formulas # <<>>

\* the call issued at a site
SiteCall(site) ==
    CASE site = "update_data" -> LogEntry("update", <<>>)
      [] site = "set_basic_filter" -> LogEntry("set_basic_filter", <<>>)
      [] site = "freeze_rows" -> LogEntry("freeze", <<freeze_rows>>)
      [] site = "set_bold_header" -> LogEntry("format", BoldRange(Len(regular_data[1])))
      [] site = "update_cell_formula" -> LogEntry("update_acell", formulas[1].key)

\* the first site after position i whose condition holds (0: none, the
\* function goes on to its final return)
NextSite(i) ==
    IF \E j \in DOMAIN CallSites : j > i /\ SiteTaken(CallSites[j].site)
      THEN CHOOSE j \in DOMAIN CallSites :
             /\ j > i
             /\ SiteTaken(CallSites[j].site)
             /\ \A k \in (i + 1) .. (j - 1) : ~SiteTaken(CallSites[k].site)
      ELSE 0

\* does an exception raised by the wrapped call at this site leave the main
\* try block for its `except Exception` handler
PropagatesMutSwallowFormat(site, r) == r.kind = "raise" /\ site = "update_data"
PropagatesMutSwallowUpdate(site, r) == r.kind = "raise" /\ site # "update_data"
Propagates(site, r) == r.kind = "raise"

\* go on after the statement at position i: the next wrapped call, or
\* return {"status": "success", ...}
GoOn(i, l) ==
    LET j == NextSite(i) IN
    IF j = 0
      THEN /\ Return("success", <<"Spreadsheet updated successfully">>, <<>>, TRUE)
           /\ LeaveWrapper
           /\ log' = l
           /\ UNCHANGED fidx
      ELSE /\ pc' = CallSites[j].site
           /\ EnterWrapper(CallSites[j].max_retries, INITIAL_DELAY)
           /\ log' = Append(l, SiteCall(CallSites[j].site))
           /\ fidx' = IF CallSites[j].site = "update_cell_formula" THEN 1 ELSE fidx
           /\ UNCHANGED result

\* worksheet_update_data(worksheet, regular_data), the first wrapped write
CallUpdateData ==
    /\ pc = "first_pass_done"
    /\ wpc = "idle"
    /\ GoOn(0, log)
    /\ UNCHANGED <<avars, xvars, titles, worksheet, regular_data, formulas, formula_errors>>

\* the wrapped call for the literal grid, the filter, the freeze or the bold
\* header has ended
AfterCall ==
    /\ pc \in {"update_data", "set_basic_filter", "freeze_rows", "set_bold_header"}
    /\ wpc = "done"
    /\ IF Propagates(pc, wresult)
         THEN /\ ReturnError("Error updating spreadsheet", wresult.exc)
              /\ LeaveWrapper
              /\ log' = LogEnded(log, wresult)
              /\ UNCHANGED fidx
         ELSE GoOn(SiteIndex(pc), LogEnded(log, wresult))
    /\ UNCHANGED <<avars, xvars, titles, worksheet, regular_data, formulas, formula_errors>>

\* does the formulas.items() loop go on to the next item after a write that
\* ended as r (the loop body catches every Exception)
LoopGoesOnMutAbort(r) == r.kind # "raise"
LoopGoesOn(r) == TRUE

\* the status returned after the formula loop
FinalStatusMutAlwaysSuccess(errs, fs) == "success"
FinalStatusMutAllFailedError(errs, fs) ==
    IF errs # <<>> /\ Len(errs) = Len(fs) THEN "error"
    ELSE IF errs # <<>> THEN "partial_success"
    ELSE "success"
FinalStatusMutInverted(errs, fs) == IF errs = <<>> THEN "partial_success" ELSE "success"
FinalStatus(errs, fs) ==
    IF errs # <<>> /\ Len(errs) = Len(fs) THEN "partial_success"
    ELSE IF errs # <<>> THEN "partial_success"
    ELSE "success"

FinalMessage(errs, fs) ==
    IF errs # <<>> /\ Len(errs) = Len(fs) THEN <<"Data updated but all formulas failed">>
    ELSE IF errs # <<>> THEN <<"Data updated but some formulas failed">>
    ELSE <<"Spreadsheet updated successfully">>

\* update_cell_formula(worksheet, cell_ref, formula) has ended: record a
\* failure, then the next item of formulas, or the final return
AfterFormula ==
    /\ pc = "update_cell_formula"
    /\ wpc = "done"
    /\ log' = IF fidx < Len(formulas) /\ LoopGoesOn(wresult)
                THEN Append(LogEnded(log, wresult),
                            LogEntry("update_acell", formulas[fidx + 1].key))
                ELSE LogEnded(log, wresult)
    /\ formula_errors' =
         IF wresult.kind = "raise"
           THEN Append(formula_errors,
                       [ref |-> formulas[fidx].key, exc |-> ExcText(wresult.exc)])
           ELSE formula_errors
    /\ IF fidx < Len(formulas) /\ LoopGoesOn(wresult)
         THEN /\ fidx' = fidx + 1
              /\ EnterWrapper(FORMULA_RETRIES, INITIAL_DELAY)
              /\ UNCHANGED <<pc, result>>
         ELSE /\ Return(FinalStatus(formula_errors', formulas),
                        FinalMessage(formula_errors', formulas), formula_errors', TRUE)
              /\ LeaveWrapper
              /\ UNCHANGED fidx
    /\ UNCHANGED <<avars, xvars, titles, worksheet, regular_data, formulas>>

\* ------------------------------------------------ one call of the tool
Formula == PyStr(<<ORD_EQ, ORD_A>>)

\* a grid of h rows of w cells whose last f cells (in row-major order) are
\* formulas, the others literals
RectGrid(h, w, f) ==
    PyList([r \in 1 .. h |->
              PyList([c \in 1 .. w |->
                        IF (r - 1) * w + c > h * w - f THEN Formula ELSE PyInt(30)])])

\* such grids up to MaxRows x MaxCols with up to MaxFormulas formulas, and
\* an empty grid
ToolGrids ==
    { RectGrid(x[1], x[2], x[3]) :
        x \in { y \in (1 .. MaxRows) \X (0 .. MaxCols) \X (0 .. MaxFormulas) :
                  y[3] <= y[1] * y[2] } }
    \cup {PyList(<<>>)}

Init ==
    /\ pc = "called"
    /\ OnlyTool("update_google_sheet")
    /\ spreadsheet_url \in {PyStr(<<117>>), PyStr(<<>>)}
    /\ data_and_formulas \in ToolGrids
    /\ worksheet_name \in {NoneVal, PyStr(<<83>>), PyStr(<<68>>)}
    /\ set_basic_filter \in BOOLEAN
    /\ freeze_rows \in -1 .. 1
    /\ set_bold_header \in BOOLEAN
    /\ titles = <<<<83>>>>
    /\ worksheet = 0
    /\ regular_data = <<>>
    /\ formulas = <<>>
    /\ fidx = 0
    /\ formula_errors = <<>>
    /\ result = NoResult
    /\ log = <<>>
    /\ WrapperIdle

Next ==
    \/ Validate
    \/ Attempt
    \/ Sleep
    \/ Exhausted
    \/ AfterInitClient
    \/ OpenByUrl
    \/ Worksheets
    \/ AddWorksheet
    \/ GetWorksheet
    \/ FirstPass
    \/ CallUpdateData
    \/ AfterCall
    \/ AfterFormula

Spec == Init /\ [][Next]_vars

\* =================================================================
\* The other tools
\* =================================================================
\* state of update_google_sheet alone
uvars == <<data_and_formulas, set_basic_filter, freeze_rows, set_bold_header,
           regular_data, formulas, fidx, formula_errors>>

\* arguments of the other tools, the service, get_column_name
cvars == <<tool, spreadsheet_url, worksheet_name, title, share_with, limit, offset,
           titles, files, col_n, col_name, tasks, running>>

\* a call made on the client or on a gspread object without the wrapper:
\* it is made once; on success the function goes on at `next`
DirectCall(op, arg, prefix, next) ==
    \E o \in DirectOutcomes :
      /\ log' = LogEnded(Append(log, LogEntry(op, arg)), o)
      /\ IF o.kind = "raise"
           THEN ReturnError(prefix, o.exc)
           ELSE pc' = next /\ UNCHANGED result

\* client = init_gspread_client(), entered
CallInitClient(next) ==
    /\ pc' = next
    /\ EnterWrapper(DEFAULT_RETRIES, INITIAL_DELAY)
    /\ log' = Append(log, LogEntry("init_gspread_client", <<>>))
    /\ UNCHANGED result

\* ------------------------------------------------------ create_google_sheet
CreateValidationErrorsMutNoShareCheck(t, sw) ==
    IF ~Truthy(t) \/ ~IsStr(t) THEN <<"Title must be a non-empty string">> ELSE <<>>
CreateValidationErrors(t, sw) ==
    (IF ~Truthy(t) \/ ~IsStr(t) THEN <<"Title must be a non-empty string">> ELSE <<>>)
    \o (IF ~Truthy(sw) \/ ~IsStr(sw)
          THEN <<"share_with must be a non-empty string with a valid email address">>
          ELSE <<>>)

\* validation, then client = init_gspread_client()
CreateValidate ==
    /\ pc = "create_called"
    /\ LET validation_errors == CreateValidationErrors(title, share_with) IN
       IF validation_errors # <<>>
         THEN /\ Return("error", validation_errors, <<>>, FALSE)
              /\ UNCHANGED <<wvars, log>>
         ELSE CallInitClient("create_init_client")
    /\ UNCHANGED <<uvars, cvars, worksheet, payload>>

CreateAfterInitClient ==
    /\ pc = "create_init_client"
    /\ wpc = "done"
    /\ log' = LogEnded(log, wresult)
    /\ IF wresult.kind = "raise"
         THEN ReturnError("Error creating spreadsheet", wresult.exc)
         ELSE pc' = "create" /\ UNCHANGED result
    /\ LeaveWrapper
    /\ UNCHANGED <<uvars, cvars, worksheet, payload>>

\* spreadsheet = client.create(title)
Create ==
    /\ pc = "create"
    /\ DirectCall("create", title.v, "Error creating spreadsheet", "share")
    /\ UNCHANGED <<wvars, uvars, cvars, worksheet, payload>>

\* spreadsheet.share(share_with, perm_type='user', role='writer'), then the
\* success return with spreadsheet_url
Share ==
    /\ pc = "share"
    /\ \E o \in DirectOutcomes :
         /\ log' = LogEnded(Append(log, LogEntry("share", share_with.v)), o)
         /\ IF o.kind = "raise"
              THEN ReturnError("Error creating spreadsheet", o.exc)
              ELSE Return("success", <<"Spreadsheet created successfully">>, <<>>, TRUE)
    /\ UNCHANGED <<wvars, uvars, cvars, worksheet, payload>>

\* --------------------------------------------------------- get_google_sheet
GetValidationErrors(url) ==
    IF ~Truthy(url) \/ ~IsStr(url)
      THEN <<"spreadsheet_url must be a non-empty string">> ELSE <<>>

GetValidate ==
    /\ pc = "get_called"
    /\ LET validation_errors == GetValidationErrors(spreadsheet_url) IN
       IF validation_errors # <<>>
         THEN /\ Return("error", validation_errors, <<>>, FALSE)
              /\ UNCHANGED <<wvars, log>>
         ELSE CallInitClient("get_init_client")
    /\ UNCHANGED <<uvars, cvars, worksheet, payload>>

GetAfterInitClient ==
    /\ pc = "get_init_client"
    /\ wpc = "done"
    /\ log' = LogEnded(log, wresult)
    /\ IF wresult.kind = "raise"
         THEN ReturnError("Error retrieving spreadsheet data", wresult.exc)
         ELSE pc' = "get_open_by_url" /\ UNCHANGED result
    /\ LeaveWrapper
    /\ UNCHANGED <<uvars, cvars, worksheet, payload>>

\* spreadsheet = client.open_by_url(spreadsheet_url), in its own try/except
GetOpenByUrl ==
    /\ pc = "get_open_by_url"
    /\ DirectCall("open_by_url", spreadsheet_url.v, "Could not open spreadsheet",
                  IF Truthy(worksheet_name) THEN "get_worksheets" ELSE "get_first_worksheet")
    /\ UNCHANGED <<wvars, uvars, cvars, worksheet, payload>>

\* if not worksheet: (worksheet is still None after the loop)
NotFoundMutNever(ws) == FALSE
NotFound(ws) == ws = 0

\* for ws in spreadsheet.worksheets(): ...; if not worksheet: return error
GetWorksheets ==
    /\ pc = "get_worksheets"
    /\ \E o \in DirectOutcomes :
         /\ log' = LogEnded(Append(log, LogEntry("worksheets", <<>>)), o)
         /\ IF o.kind = "raise"
              THEN /\ ReturnError("Error retrieving spreadsheet data", o.exc)
                   /\ UNCHANGED worksheet
              ELSE /\ worksheet' = FirstMatch(titles, worksheet_name.v)
                   /\ IF NotFound(worksheet')
                        THEN Return("error", <<"Worksheet not found">>, <<>>, FALSE)
                        ELSE pc' = "get_read" /\ UNCHANGED result
    /\ UNCHANGED <<wvars, uvars, cvars, payload>>

\* worksheet = spreadsheet.get_worksheet(0)
GetFirstWorksheet ==
    /\ pc = "get_first_worksheet"
    /\ \E o \in DirectOutcomes :
         /\ log' = LogEnded(Append(log, LogEntry("get_worksheet", <<>>)), o)
         /\ IF o.kind = "raise"
              THEN /\ ReturnError("Error retrieving spreadsheet data", o.exc)
                   /\ UNCHANGED worksheet
              ELSE /\ worksheet' = 1
                   /\ pc' = "get_read"
                   /\ UNCHANGED result
    /\ UNCHANGED <<wvars, uvars, cvars, payload>>

\* data = get_worksheet_data(worksheet), a wrapped call, entered
GetReadData ==
    /\ pc = "get_read"
    /\ wpc = "idle"
    /\ pc' = "get_worksheet_data"
    /\ EnterWrapper(DEFAULT_RETRIES, INITIAL_DELAY)
    /\ log' = Append(log, LogEntry("get_all_values", <<>>))
    /\ UNCHANGED <<uvars, cvars, worksheet, payload, result>>

\* get_worksheet_data has ended: the success return with data, or the error
GetAfterData ==
    /\ pc = "get_worksheet_data"
    /\ wpc = "done"
    /\ log' = LogEnded(log, wresult)
    /\ IF wresult.kind = "raise"
         THEN /\ ReturnError("Error retrieving spreadsheet data", wresult.exc)
              /\ UNCHANGED payload
         ELSE /\ Return("success", <<"Spreadsheet data retrieved successfully">>, <<>>, TRUE)
              /\ payload' = [payload EXCEPT !.has_data = TRUE]
    /\ LeaveWrapper
    /\ UNCHANGED <<uvars, cvars, worksheet>>

\* ------------------------------------------------------- list_google_sheets
TypeError == [cls |-> "TypeError", status_code |-> 0, id |-> 0]

Min(a, b) == IF a < b THEN a ELSE b
Max(a, b) == IF a > b THEN a ELSE b

\* s[a:] and s[:b] of Python, a and b integers of either sign
SliceFrom(s, a) ==
    SubSeq(s, (IF a < 0 THEN Max(Len(s) + a, 0) ELSE Min(a, Len(s))) + 1, Len(s))
SliceToMutOneMore(s, b) == SubSeq(s, 1, Min(b + 1, Len(s)))
SliceTo(s, b) ==
    SubSeq(s, 1, IF b < 0 THEN Max(Len(s) + b, 0) ELSE Min(b, Len(s)))

\* lines 456-492: the page and the keys of the result, for integer offset
Paginate(all_spreadsheets, off, lim) ==
    LET total_count == Len(all_spreadsheets)
        from_offset == IF off < total_count THEN SliceFrom(all_spreadsheets, off) ELSE <<>>
        paginated_spreadsheets ==
          IF off > 0 \/ lim # NoneVal
            THEN IF lim # NoneVal THEN SliceTo(from_offset, lim.v[1]) ELSE from_offset
            ELSE all_spreadsheets
    IN IF all_spreadsheets = <<>>
         THEN [has_data |-> FALSE, spreadsheets |-> <<>>, total_count |-> 0,
               has_more |-> FALSE]
         ELSE [has_data |-> FALSE, spreadsheets |-> paginated_spreadsheets,
               total_count |-> total_count,
               has_more |-> IF lim # NoneVal
                              THEN off + Len(paginated_spreadsheets) < total_count
                              ELSE FALSE]

\* the function is entered (no validation): client = init_gspread_client()
ListCalled ==
    /\ pc = "list_called"
    /\ CallInitClient("list_init_client")
    /\ UNCHANGED <<uvars, cvars, worksheet, payload>>

\* init_gspread_client has ended; all_spreadsheets = list_spreadsheets(), a
\* wrapped call, is entered
ListAfterInitClient ==
    /\ pc = "list_init_client"
    /\ wpc = "done"
    /\ IF wresult.kind = "raise"
         THEN /\ ReturnError("Error listing Google Sheets", wresult.exc)
              /\ log' = LogEnded(log, wresult)
              /\ LeaveWrapper
         ELSE /\ pc' = "list_spreadsheets"
              /\ EnterWrapper(DEFAULT_RETRIES, INITIAL_DELAY)
              /\ log' = Append(LogEnded(log, wresult),
                               LogEntry("list_spreadsheet_files", <<>>))
              /\ UNCHANGED result
    /\ UNCHANGED <<uvars, cvars, worksheet, payload>>

\* list_spreadsheets has ended: pagination and the return
ListAfterSpreadsheets ==
    /\ pc = "list_spreadsheets"
    /\ wpc = "done"
    /\ log' = LogEnded(log, wresult)
    /\ IF wresult.kind = "raise"
         THEN /\ ReturnError("Error listing Google Sheets", wresult.exc)
              /\ UNCHANGED payload
         ELSE IF offset = NoneVal
           \* `offset > 0` with offset None raises TypeError
           THEN /\ ReturnError("Error listing Google Sheets", TypeError)
                /\ UNCHANGED payload
           ELSE /\ Return("success", <<"Found accessible Google Sheets">>, <<>>, FALSE)
                /\ payload' = Paginate([i \in 1 .. files |-> i], offset.v[1], limit)
    /\ LeaveWrapper
    /\ UNCHANGED <<uvars, cvars, worksheet>>

\* ------------------------------------------------ one call of any tool
NoLocals ==
    /\ worksheet = 0
    /\ regular_data = <<>>
    /\ formulas = <<>>
    /\ fidx = 0
    /\ formula_errors = <<>>
    /\ result = NoResult
    /\ log = <<>>
    /\ payload = NoPayload
    /\ col_n = 0
    /\ col_name = <<>>
    /\ NoTasks
    /\ WrapperIdle

InitTools ==
    /\ NoLocals
    /\ \/ /\ tool = "update_google_sheet"
          /\ pc = "called"
          /\ spreadsheet_url \in {PyStr(<<117>>), PyStr(<<>>)}
          /\ data_and_formulas \in {RectGrid(1, 1, 0), RectGrid(1, 2, 1)}
          /\ worksheet_name \in {NoneVal, PyStr(<<83>>), PyStr(<<68>>)}
          /\ set_basic_filter \in BOOLEAN
          /\ freeze_rows \in 0 .. 1
          /\ set_bold_header \in BOOLEAN
          /\ titles = <<<<83>>>>
          /\ title = NoneVal /\ share_with = NoneVal
          /\ limit = NoneVal /\ offset = PyInt(0) /\ files = 0
       \/ /\ tool = "create_google_sheet"
          /\ pc = "create_called"
          /\ title \in {PyStr(<<116>>), PyStr(<<>>), NoneVal}
          /\ share_with \in {PyStr(<<101>>), PyStr(<<>>), PyInt(7)}
          /\ spreadsheet_url = NoneVal /\ data_and_formulas = NoneVal
          /\ worksheet_name = NoneVal /\ set_basic_filter = FALSE
          /\ freeze_rows = 0 /\ set_bold_header = FALSE /\ titles = <<>>
          /\ limit = NoneVal /\ offset = PyInt(0) /\ files = 0
       \/ /\ tool = "get_google_sheet"
          /\ pc = "get_called"
          /\ spreadsheet_url \in {PyStr(<<117>>), PyStr(<<>>), NoneVal}
          /\ worksheet_name \in {NoneVal, PyStr(<<83>>), PyStr(<<68>>)}
          /\ titles \in {<<<<83>>>>, <<<<68>>, <<83>>, <<83>>>>}
          /\ data_and_formulas = NoneVal /\ set_basic_filter = FALSE
          /\ freeze_rows = 0 /\ set_bold_header = FALSE
          /\ title = NoneVal /\ share_with = NoneVal
          /\ limit = NoneVal /\ offset = PyInt(0) /\ files = 0
       \/ /\ tool = "list_google_sheets"
          /\ pc = "list_called"
          /\ title \in {NoneVal, PyStr(<<116>>)}
          /\ limit \in {NoneVal} \cup {PyInt(i) : i \in -1 .. MaxFiles + 1}
          /\ offset \in {NoneVal} \cup {PyInt(i) : i \in -1 .. MaxFiles + 1}
          /\ files \in 0 .. MaxFiles
          /\ spreadsheet_url = NoneVal /\ data_and_formulas = NoneVal
          /\ worksheet_name = NoneVal /\ set_basic_filter = FALSE
          /\ freeze_rows = 0 /\ set_bold_header = FALSE /\ titles = <<>>
          /\ share_with = NoneVal

NextTools ==
    \/ Next
    \/ CreateValidate
    \/ CreateAfterInitClient
    \/ Create
    \/ Share
    \/ GetValidate
    \/ GetAfterInitClient
    \/ GetOpenByUrl
    \/ GetWorksheets
    \/ GetFirstWorksheet
    \/ GetReadData
    \/ GetAfterData
    \/ ListCalled
    \/ ListAfterInitClient
    \/ ListAfterSpreadsheets

SpecTools == InitTools /\ [][NextTools]_vars

\* ------------------------------------------- calls with arbitrary arguments
\* arguments a caller can pass for data_and_formulas that are not a
\* non-empty list of lists: falsy values, values of another type, and lists
\* with a row that is not a list
BadGrids ==
    { PyList(<<>>), NoneVal, PyInt(0), PyStr(<<>>), PyInt(5), PyStr(<<ORD_A>>),
      PyBool(TRUE),
      PyList(<<PyInt(5)>>),
      PyList(<<NoneVal>>),
      PyList(<<PyList(<<PyInt(30)>>), PyStr(<<ORD_A>>)>>),
      PyList(<<PyStr(<<ORD_A>>), PyList(<<PyInt(30)>>)>>) }

\* arguments a caller can pass for spreadsheet_url
AnyUrls == {PyStr(<<117>>), PyStr(<<>>), NoneVal, PyInt(7), PyList(<<PyStr(<<117>>)>>)}

InitValidate ==
    /\ pc = "called"
    /\ OnlyTool("update_google_sheet")
    /\ spreadsheet_url \in AnyUrls
    /\ data_and_formulas \in BadGrids \cup {RectGrid(1, 1, 0), RectGrid(1, 2, 1)}
    /\ worksheet_name \in {NoneVal, PyStr(<<83>>), PyStr(<<68>>)}
    /\ set_basic_filter \in BOOLEAN
    /\ freeze_rows \in 0 .. 1
    /\ set_bold_header \in BOOLEAN
    /\ titles = <<<<83>>>>
    /\ worksheet = 0
    /\ regular_data = <<>>
    /\ formulas = <<>>
    /\ fidx = 0
    /\ formula_errors = <<>>
    /\ result = NoResult
    /\ log = <<>>
    /\ WrapperIdle

SpecValidate == InitValidate /\ [][Next]_vars

\* ------------------------------------------------ calls with uneven grids
\* a grid of literals whose rows have the given lengths
LiteralGrid(lens) == PyList([r \in DOMAIN lens |-> PyList([c \in 1 .. lens[r] |-> PyInt(30)])])

\* one-row grids of every width up to MaxWide, grids whose first row is
\* shorter or longer than the second or empty, and a grid with a formula
UnevenGrids ==
    { LiteralGrid(<<w>>) : w \in 1 .. MaxWide }
    \cup { LiteralGrid(<<1, 2>>), LiteralGrid(<<2, 1>>), LiteralGrid(<<0, 1>>),
           LiteralGrid(<<0, 2>>), RectGrid(1, 2, 1) }

InitUneven ==
    /\ pc = "called"
    /\ OnlyTool("update_google_sheet")
    /\ spreadsheet_url = PyStr(<<117>>)
    /\ data_and_formulas \in UnevenGrids
    /\ worksheet_name \in {NoneVal, PyStr(<<83>>), PyStr(<<68>>)}
    /\ set_basic_filter \in BOOLEAN
    /\ freeze_rows \in 0 .. 1
    /\ set_bold_header \in BOOLEAN
    /\ titles = <<<<83>>>>
    /\ worksheet = 0
    /\ regular_data = <<>>
    /\ formulas = <<>>
    /\ fidx = 0
    /\ formula_errors = <<>>
    /\ result = NoResult
    /\ log = <<>>
    /\ WrapperIdle

SpecUneven == InitUneven /\ [][Next]_vars

\* --------------------------------- calls on spreadsheets with several sheets
\* the worksheet titles of a spreadsheet, in listing order; titles may repeat
SheetTitles == UNION { [1 .. n -> {<<83>>, <<68>>}] : n \in 1 .. MaxSheets }

InitLookup ==
    /\ pc = "called"
    /\ OnlyTool("update_google_sheet")
    /\ spreadsheet_url = PyStr(<<117>>)
    /\ data_and_formulas \in { LiteralGrid(<<1>>), LiteralGrid(<<2, 1>>),
                               LiteralGrid(<<1, 2>>), LiteralGrid(<<0, 1>>),
                               RectGrid(1, 2, 1) }
    /\ worksheet_name \in {NoneVal, PyStr(<<>>), PyStr(<<83>>), PyStr(<<68>>)}
    /\ set_basic_filter \in BOOLEAN
    /\ freeze_rows = 0
    /\ set_bold_header = FALSE
    /\ titles \in SheetTitles
    /\ worksheet = 0
    /\ regular_data = <<>>
    /\ formulas = <<>>
    /\ fidx = 0
    /\ formula_errors = <<>>
    /\ result = NoResult
    /\ log = <<>>
    /\ WrapperIdle

SpecLookup == InitLookup /\ [][Next]_vars

\* ------------------------------------------------ get_column_name on its own
InitColumn ==
    /\ WrapperIdle
    /\ pc = "get_column_name"
    /\ spreadsheet_url = NoneVal
    /\ data_and_formulas = NoneVal
    /\ worksheet_name = NoneVal
    /\ set_basic_filter = FALSE
    /\ freeze_rows = 0
    /\ set_bold_header = FALSE
    /\ titles = <<>>
    /\ worksheet = 0
    /\ regular_data = <<>>
    /\ formulas = <<>>
    /\ fidx = 0
    /\ formula_errors = <<>>
    /\ result = NoResult
    /\ log = <<>>
    /\ tool = "none"
    /\ title = NoneVal
    /\ share_with = NoneVal
    /\ limit = NoneVal
    /\ offset = PyInt(0)
    /\ files = 0
    /\ payload = NoPayload
    /\ col_n \in 0 .. MaxColumn
    /\ col_name = <<>>
    /\ NoTasks

\* col_name = get_column_name(col_n)
GetColumnName ==
    /\ pc = "get_column_name"
    /\ col_name' = get_column_name(col_n)
    /\ pc' = "column_named"
    /\ UNCHANGED <<wvars, avars, titles, worksheet, regular_data, formulas, fidx,
                   formula_errors, result, log, tool, title, share_with, limit, offset,
                   files, payload, col_n, tasks, running>>

NextColumn == GetColumnName

SpecColumn == InitColumn /\ [][NextColumn]_vars

\* ------------------------------------- calls that go through all the writes
\* grids with no, two and three formulas; every combination of the options
InitWrites ==
    /\ pc = "called"
    /\ OnlyTool("update_google_sheet")
    /\ spreadsheet_url = PyStr(<<117>>)
    /\ data_and_formulas \in {RectGrid(1, 1, 0), RectGrid(2, 2, 2), RectGrid(2, 2, 3)}
    /\ worksheet_name \in {NoneVal, PyStr(<<83>>), PyStr(<<68>>)}
    /\ set_basic_filter \in BOOLEAN
    /\ freeze_rows \in -1 .. 1
    /\ set_bold_header \in BOOLEAN
    /\ titles = <<<<83>>>>
    /\ worksheet = 0
    /\ regular_data = <<>>
    /\ formulas = <<>>
    /\ fidx = 0
    /\ formula_errors = <<>>
    /\ result = NoResult
    /\ log = <<>>
    /\ WrapperIdle

SpecWrites == InitWrites /\ [][Next]_vars

\* the same calls when the interpreter keeps running the function: a step
\* that can be taken is taken, and every remote call returns or raises
SpecWritesFair == InitWrites /\ [][Next]_vars /\ WF_vars(Next)

\* =================================================================
\* Several tool calls in one server process
\* =================================================================
\* mcp.run() serves the calls on one asyncio event loop: the coroutine of a
\* tool call keeps the loop's thread until it awaits or returns. The
\* coroutine modelled is get_google_sheet, called with a ctx and without
\* worksheet_name.
MaxTasks == 2

\* the statements of get_google_sheet that await, call the service through
\* the wrapper, call it directly or return, in program order
TaskProgram ==
    << [at |-> "info_opening", how |-> "await"],
       [at |-> "init_gspread_client", how |-> "wrapped"],
       [at |-> "open_by_url", how |-> "direct"],
       [at |-> "get_worksheet", how |-> "direct"],
       [at |-> "info_using", how |-> "await"],
       [at |-> "info_retrieving", how |-> "await"],
       [at |-> "get_worksheet_data", how |-> "wrapped"],
       [at |-> "return_success", how |-> "return"],
       [at |-> "return_not_opened", how |-> "return"],
       [at |-> "ctx_error", how |-> "await"],
       [at |-> "return_error", how |-> "return"] >>

Statement(at) == CHOOSE i \in DOMAIN TaskProgram : TaskProgram[i].at = at

How(at) == IF at = "returned" THEN "none" ELSE TaskProgram[Statement(at)].how

\* the statement that follows when the one at `at` ends normally
After(at) == IF How(at) = "return" THEN "returned" ELSE TaskProgram[Statement(at) + 1].at

\* the statement that follows when the call at `at` raises: the inner
\* `except Exception` around open_by_url returns, the outer one reports
OnRaise(at) == IF at = "open_by_url" THEN "return_not_opened" ELSE "ctx_error"

\* does a statement hand the loop's thread to the other coroutines: an await
\* may, time.sleep(delay) in the wrapper does not
YieldsMutSleepToo(how) == how \in {"await", "sleep"}
Yields(how) == how = "await"

\* delay = initial_delay at the entry of the wrapper, whatever the frames
\* of other invocations (ts) hold
EntryDelayMutGlobal(idl, ts) ==
    LET left == {ts[d].delay : d \in DOMAIN ts} \ {0} IN
    IF left = {} THEN idl ELSE CHOOSE x \in left : \A y \in left : y <= x
EntryDelay(idl, ts) == idl

\* a coroutine that has not started; the wrapper's locals are fields of the
\* coroutine, those of an ended invocation stay until the next one
\* replaces them
NewTask ==
    [at |-> "info_opening", status |-> "none", wpc |-> "idle", retry |-> 0,
     delay |-> 0, last_exception |-> NoException, wresult |-> Pending,
     outcomes |-> <<>>, sleeps |-> <<>>]

InitTasks ==
    /\ WrapperIdle
    /\ pc = "none"
    /\ spreadsheet_url = NoneVal
    /\ data_and_formulas = NoneVal
    /\ worksheet_name = NoneVal
    /\ set_basic_filter = FALSE
    /\ freeze_rows = 0
    /\ set_bold_header = FALSE
    /\ titles = <<>>
    /\ worksheet = 0
    /\ regular_data = <<>>
    /\ formulas = <<>>
    /\ fidx = 0
    /\ formula_errors = <<>>
    /\ result = NoResult
    /\ log = <<>>
    /\ tool = "get_google_sheet"
    /\ title = NoneVal
    /\ share_with = NoneVal
    /\ limit = NoneVal
    /\ offset = PyInt(0)
    /\ files = 0
    /\ payload = NoPayload
    /\ col_n = 0
    /\ col_name = <<>>
    /\ tasks = [c \in 1 .. MaxTasks |-> NewTask]
    /\ running = 0

\* everything but the coroutines
svars == <<wvars, hvars, tool, title, share_with, limit, offset, files, payload,
           col_n, col_name>>

\* the event loop runs a coroutine that is ready
Resume(c) ==
    /\ running = 0
    /\ tasks[c].at # "returned"
    /\ running' = c
    /\ UNCHANGED <<tasks, svars>>

\* await ctx.info(...) / await ctx.error(...)
TaskAwait(c) ==
    /\ running = c
    /\ How(tasks[c].at) = "await"
    /\ tasks' = [tasks EXCEPT ![c].at = After(tasks[c].at)]
    /\ running' = IF Yields("await") THEN 0 ELSE c
    /\ UNCHANGED svars

\* a wrapped call begins: delay = initial_delay; last_exception = None
TaskEnter(c) ==
    /\ running = c
    /\ How(tasks[c].at) = "wrapped"
    /\ tasks[c].wpc = "idle"
    /\ tasks' = [tasks EXCEPT ![c] =
                   [@ EXCEPT !.wpc = "loop",
                             !.retry = 0,
                             !.delay = EntryDelay(INITIAL_DELAY, tasks),
                             !.last_exception = NoException,
                             !.wresult = Pending,
                             !.outcomes = <<>>,
                             !.sleeps = <<>>]]
    /\ UNCHANGED <<running, svars>>

\* one iteration of the wrapper's loop up to the sleep
TaskAttempt(c) ==
    /\ running = c
    /\ tasks[c].wpc = "loop"
    /\ InRange(tasks[c].retry, DEFAULT_RETRIES)
    /\ \E o \in FuncOutcomes(Len(tasks[c].outcomes) + 1) :
         IF o.kind = "raise" /\ IsAPIError(o.exc) /\ IsRateLimit(o.exc)
           THEN /\ tasks' = [tasks EXCEPT ![c] =
                               [@ EXCEPT !.outcomes = Append(@, o),
                                         !.last_exception = Remember(@, o.exc),
                                         !.wpc = "sleep"]]
                /\ running' = IF Yields("sleep") THEN 0 ELSE c
           ELSE /\ tasks' = [tasks EXCEPT ![c] =
                               [@ EXCEPT !.outcomes = Append(@, o),
                                         !.wresult = o,
                                         !.wpc = "done"]]
                /\ UNCHANGED running
    /\ UNCHANGED svars

\* time.sleep(delay) ends; delay *= 2; next iteration
TaskSleep(c) ==
    /\ running = c
    /\ tasks[c].wpc = "sleep"
    /\ tasks' = [tasks EXCEPT ![c] =
                   [@ EXCEPT !.sleeps = Append(@, tasks[c].delay),
                             !.delay = NextDelay(@),
                             !.retry = @ + 1,
                             !.wpc = "loop"]]
    /\ UNCHANGED <<running, svars>>

\* after the loop: if last_exception: raise last_exception
TaskExhausted(c) ==
    /\ running = c
    /\ tasks[c].wpc = "loop"
    /\ ~InRange(tasks[c].retry, DEFAULT_RETRIES)
    /\ tasks' = [tasks EXCEPT ![c] =
                   [@ EXCEPT !.wresult =
                                IF tasks[c].last_exception # NoException
                                  THEN [kind |-> "raise",
                                        exc |-> tasks[c].last_exception, val |-> 0]
                                  ELSE ReturnNone,
                             !.wpc = "done"]]
    /\ UNCHANGED <<running, svars>>

\* the wrapper has returned or raised to get_google_sheet
TaskAfterWrapped(c) ==
    /\ running = c
    /\ tasks[c].wpc = "done"
    /\ tasks' = [tasks EXCEPT ![c] =
                   [@ EXCEPT !.at = IF tasks[c].wresult.kind = "raise"
                                      THEN OnRaise(@) ELSE After(@),
                             !.wpc = "idle"]]
    /\ UNCHANGED <<running, svars>>

\* client.open_by_url(spreadsheet_url) / spreadsheet.get_worksheet(0)
TaskDirect(c) ==
    /\ running = c
    /\ How(tasks[c].at) = "direct"
    /\ \E ok \in BOOLEAN :
         tasks' = [tasks EXCEPT ![c].at = IF ok THEN After(@) ELSE OnRaise(@)]
    /\ UNCHANGED <<running, svars>>

\* return {"status": ...}: the coroutine ends, its frames are gone
TaskReturn(c) ==
    /\ running = c
    /\ How(tasks[c].at) = "return"
    /\ tasks' = [tasks EXCEPT ![c] =
                   [NewTask EXCEPT !.status = IF tasks[c].at = "return_success"
                                                THEN "success" ELSE "error",
                                   !.at = "returned"]]
    /\ running' = 0
    /\ UNCHANGED svars

NextTasks ==
    \/ \E c \in DOMAIN tasks : Resume(c)
    \/ \E c \in DOMAIN tasks : TaskAwait(c)
    \/ \E c \in DOMAIN tasks : TaskEnter(c)
    \/ \E c \in DOMAIN tasks : TaskAttempt(c)
    \/ \E c \in DOMAIN tasks : TaskSleep(c)
    \/ \E c \in DOMAIN tasks : TaskExhausted(c)
    \/ \E c \in DOMAIN tasks : TaskAfterWrapped(c)
    \/ \E c \in DOMAIN tasks : TaskDirect(c)
    \/ \E c \in DOMAIN tasks : TaskReturn(c)

SpecTasks == InitTasks /\ [][NextTasks]_vars

\* =================================================================
\* server.py: the backoff decorator
\* =================================================================
\* except gspread.exceptions.APIError as e
BarCatchesMutOnly429(e) == IsAPIError(e) /\ e.status_code = RATE_LIMIT_STATUS
BarCatches(e) == IsAPIError(e)

\* time.sleep(2**i)
SleepTimeMutFromTwo(i) == 2 ^ (i + 1)
SleepTime(i) == 2 ^ i

\* Exception("Tried google 6 times.", last_exception)
TriedGoogle(e) == [cls |-> "Exception", status_code |-> 0, id |-> 0, wraps |-> e]

\* bar is called: last_exception = None, the loop starts at i = 0 (retry
\* stands for i)
InitServerBackoff ==
    /\ wpc = "bar_loop"
    /\ max_retries = 0
    /\ initial_delay = 0
    /\ retry = 0
    /\ delay = 0
    /\ last_exception = NoException
    /\ wresult = Pending
    /\ outcomes = <<>>
    /\ sleeps = <<>>
    /\ NoToolCall("none", NoneVal)

\* one iteration up to the sleep: try: return foo(*args, **kwargs) except ...
BarAttempt ==
    /\ wpc = "bar_loop"
    /\ retry < SERVER_TRIES
    /\ \E o \in FuncOutcomes(Len(outcomes) + 1) :
         /\ outcomes' = Append(outcomes, o)
         /\ IF o.kind = "raise" /\ BarCatches(o.exc)
              THEN /\ last_exception' = o.exc
                   /\ wpc' = "bar_sleep"
                   /\ UNCHANGED wresult
              ELSE /\ wresult' = o
                   /\ wpc' = "bar_done"
                   /\ UNCHANGED last_exception
    /\ UNCHANGED <<max_retries, initial_delay, retry, delay, sleeps>>
    /\ UNCHANGED <<hvars, xvars>>

\* time.sleep(2**i); next iteration
BarSleep ==
    /\ wpc = "bar_sleep"
    /\ sleeps' = Append(sleeps, SleepTime(retry))
    /\ retry' = retry + 1
    /\ wpc' = "bar_loop"
    /\ UNCHANGED <<max_retries, initial_delay, delay, last_exception, wresult, outcomes>>
    /\ UNCHANGED <<hvars, xvars>>

\* after the loop: raise Exception("Tried google 6 times.", last_exception)
BarExhausted ==
    /\ wpc = "bar_loop"
    /\ ~(retry < SERVER_TRIES)
    /\ wresult' = [kind |-> "raise", exc |-> TriedGoogle(last_exception), val |-> 0]
    /\ wpc' = "bar_done"
    /\ UNCHANGED <<max_retries, initial_delay, retry, delay, last_exception,
                   outcomes, sleeps>>
    /\ UNCHANGED <<hvars, xvars>>

NextServerBackoff == BarAttempt \/ BarSleep \/ BarExhausted

SpecServerBackoff == InitServerBackoff /\ [][NextServerBackoff]_vars

\* =================================================================
\* Properties of one wrapped call (checked under SpecBackoff)
\* =================================================================
RECURSIVE Pow2(_)
Pow2(n) == IF n <= 0 THEN 1 ELSE 2 * Pow2(n - 1)

RECURSIVE SumSeq(_)
SumSeq(s) == IF s = <<>> THEN 0 ELSE s[1] + SumSeq(Tail(s))

Is429(o) == o.kind = "raise" /\ o.exc.cls = "APIError" /\ o.exc.status_code = RATE_LIMIT_STATUS
IsOtherRaise(o) == o.kind = "raise" /\ ~Is429(o)
Count429(s) == Cardinality({i \in DOMAIN s : Is429(s[i])})

\* C1: with max_retries >= 1 the operation is invoked at most max_retries
\* times, an invocation other than the first happens only after a 429 of the
\* previous one, and the first invocation that does not raise ends the call:
\* the wrapper returns its value, nothing is invoked and no sleep happens
\* after it.
C1_BoundedRetryReturnsFirstSuccess ==
    max_retries >= 1 =>
      /\ Len(outcomes) <= max_retries
      /\ \A i \in DOMAIN outcomes : i > 1 => Is429(outcomes[i - 1])
      /\ \A i \in DOMAIN outcomes :
           outcomes[i].kind = "return" =>
             /\ i = Len(outcomes)
             /\ wpc = "done"
             /\ wresult = outcomes[i]
             /\ Len(sleeps) = i - 1

\* the last permitted attempt succeeds after 429s on all earlier ones
C1_Witness ==
    /\ wpc = "done"
    /\ max_retries >= 2
    /\ Len(outcomes) = max_retries
    /\ wresult.kind = "return"
    /\ wresult.val = max_retries

\* C2: an invocation that raises anything but a 429 API error ends the call
\* at once: the wrapper raises that very exception, the operation is not
\* invoked again and no sleep follows the failure.
C2_OtherErrorPropagatesAtOnce ==
    \A i \in DOMAIN outcomes :
      IsOtherRaise(outcomes[i]) =>
        /\ i = Len(outcomes)
        /\ wpc = "done"
        /\ wresult.kind = "raise"
        /\ wresult.exc = outcomes[i].exc
        /\ Len(sleeps) = i - 1

\* a non-429 API error on the first attempt
C2_Witness ==
    /\ wpc = "done"
    /\ Len(outcomes) = 1
    /\ outcomes[1].kind = "raise"
    /\ outcomes[1].exc.cls = "APIError"
    /\ outcomes[1].exc.status_code # RATE_LIMIT_STATUS
    /\ wresult.kind = "raise"
    /\ sleeps = <<>>

\* C3: when all max_retries (>= 1) attempts raise 429, the wrapper raises
\* the rate-limit error of the last attempt.
C3_ExhaustedRaisesLast ==
    ( /\ max_retries >= 1
      /\ wpc = "done"
      /\ Len(outcomes) = max_retries
      /\ \A i \in DOMAIN outcomes : Is429(outcomes[i]) )
    => /\ wresult.kind = "raise"
       /\ wresult.exc = outcomes[max_retries].exc
       /\ wresult.exc.id = max_retries
       /\ IsRateLimit(wresult.exc)

C3_Witness ==
    /\ wpc = "done"
    /\ max_retries >= 2
    /\ Len(outcomes) = max_retries
    /\ \A i \in DOMAIN outcomes : Is429(outcomes[i])
    /\ wresult.kind = "raise"

\* C4: the k-th sleep of a wrapped call lasts initial_delay * 2^(k-1); an
\* operation that raises 429 exactly twice and then succeeds, wrapped with
\* initial_delay = 1, is invoked 3 times and sleeps 1 + 2 = 3 in total.
C4_ExponentialDelays ==
    /\ \A k \in DOMAIN sleeps : sleeps[k] = initial_delay * Pow2(k - 1)
    /\ ( /\ wresult.kind = "return"
         /\ wresult.val # 0
         /\ Count429(outcomes) = 2
         /\ initial_delay = 1 )
       => /\ Len(outcomes) = 3
          /\ sleeps = <<1, 2>>
          /\ SumSeq(sleeps) = 3

C4_Witness ==
    /\ wpc = "done"
    /\ initial_delay = 1
    /\ wresult.kind = "return"
    /\ Len(outcomes) = 3
    /\ Count429(outcomes) = 2
    /\ SumSeq(sleeps) = 3

\* C5: with max_retries <= 0 the wrapped call invokes the operation zero
\* times and ends by raising an error (it does not return normally).
C5_ZeroRetriesRaises ==
    (max_retries <= 0 /\ wpc = "done") =>
        /\ Len(outcomes) = 0
        /\ wresult.kind = "raise"

\* =================================================================
\* Properties of the first pass (checked under SpecSplit)
\* =================================================================
\* the cells of a grid with their zero-based indexes, in row-major order
RowCells(row, r) ==
    [c \in 1 .. Len(row) |-> [row_idx |-> r - 1, col_idx |-> c - 1, cell |-> row[c]]]

RECURSIVE AllCells(_, _)
AllCells(rows, r) ==
    IF r > Len(rows) THEN <<>> ELSE RowCells(rows[r].v, r) \o AllCells(rows, r + 1)

BeginsWithEq(cell) == cell.t = "str" /\ Len(cell.v) >= 1 /\ cell.v[1] = ORD_EQ

FormulaCellsOf(grid) == SelectSeq(AllCells(grid.v, 1), LAMBDA x : BeginsWithEq(x.cell))

FirstPassDone == pc = "first_pass_done"

\* C6: the literal grid has the rows and row lengths of the input; a cell
\* that is a string beginning with '=' becomes '' there and is recorded as
\* exactly one formula entry holding that string (the entries are the formula
\* cells in row-major order); every other cell is copied unchanged. A grid
\* without such a cell gives no entry and a literal grid equal to the input.
C6_SplitKeepsShapeAndExtractsFormulas ==
    FirstPassDone =>
      LET rows == data_and_formulas.v
          cells == FormulaCellsOf(data_and_formulas) IN
      /\ Len(regular_data) = Len(rows)
      /\ \A r \in DOMAIN rows :
           /\ Len(regular_data[r]) = Len(rows[r].v)
           /\ \A c \in DOMAIN rows[r].v :
                regular_data[r][c] =
                  IF BeginsWithEq(rows[r].v[c]) THEN PyStr(<<>>) ELSE rows[r].v[c]
      /\ Len(formulas) = Len(cells)
      /\ \A i \in DOMAIN formulas : formulas[i].value = cells[i].cell
      /\ cells = <<>> =>
           /\ formulas = <<>>
           /\ regular_data = [r \in DOMAIN rows |-> rows[r].v]

\* a two-row grid with two formulas and a literal string that contains '='
C6_Witness ==
    /\ FirstPassDone
    /\ Len(data_and_formulas.v) = 2
    /\ Len(formulas) = 2
    /\ \E r \in DOMAIN regular_data : \E c \in DOMAIN regular_data[r] :
         regular_data[r][c] = PyStr(<<120, ORD_EQ>>)

\* C7: the coordinate recorded for the formula at zero-based (row, col) is
\* the bijective base-26 name of column col (0 -> "A", 25 -> "Z", 26 -> "AA")
\* followed by row + 1, for every column index.
C7_CoordinateIsColumnLettersAndRow ==
    FirstPassDone =>
      LET cells == FormulaCellsOf(data_and_formulas) IN
      \A i \in DOMAIN formulas :
        i <= Len(cells) =>
          formulas[i].key =
            get_column_name(cells[i].col_idx + 1) \o StrOfInt(cells[i].row_idx + 1)

\* =================================================================
\* Properties of update_google_sheet (checked under Spec)
\* =================================================================
Ended(op, how) == \E i \in DOMAIN log : log[i].op = op /\ log[i].ok = how

FormatOps == {"set_basic_filter", "freeze", "format"}

\* C8: when the bulk write of the literal grid fails, the tool returns
\* status "error" and no filter, freeze, bold-format or single-cell formula
\* write is issued after it.
C8_LiteralWriteFailureIsError ==
    \A i \in DOMAIN log :
      (log[i].op = "update" /\ log[i].ok = "raised") =>
        /\ pc = "returned"
        /\ result.status = "error"
        /\ \A j \in DOMAIN log :
             j > i => log[j].op \notin FormatOps \cup {"update_acell"}

\* the bulk write used up its retries on 429s although a filter and
\* formulas were to follow
C8_Witness ==
    /\ pc = "returned"
    /\ set_basic_filter
    /\ formulas # <<>>
    /\ \E i \in DOMAIN log :
         /\ log[i].op = "update"
         /\ log[i].ok = "raised"
         /\ log[i].exc.status_code = RATE_LIMIT_STATUS
    /\ result.status = "error"

\* C9: status "partial_success" is returned only if the bulk write of the
\* literal grid succeeded and at least one single-cell formula write failed.
C9_PartialSuccessOnlyAfterFormulaFailure ==
    result.status = "partial_success" =>
      /\ Ended("update", "ok")
      /\ Ended("update_acell", "raised")

C9_Witness ==
    /\ result.status = "partial_success"
    /\ Len(formulas) = 2
    /\ Len(formula_errors) = 1
    /\ Ended("update_acell", "ok")

\* the literal write succeeded, every formatting call asked for succeeded
\* and no formatting call failed
WriteAndFormatsOk ==
    /\ Ended("update", "ok")
    /\ set_basic_filter => Ended("set_basic_filter", "ok")
    /\ freeze_rows > 0 => Ended("freeze", "ok")
    /\ set_bold_header => Ended("format", "ok")
    /\ \A i \in DOMAIN log : log[i].op \in FormatOps => log[i].ok = "ok"

FormulaWrites == SelectSeq(log, LAMBDA e : e.op = "update_acell")

\* C10: once the literal write and the formatting calls have succeeded,
\* every recorded formula entry gets its own single-cell write, in order,
\* whatever the outcome of the formula writes before it.
C10_EveryFormulaIsWritten ==
    (pc = "returned" /\ WriteAndFormatsOk) =>
      /\ Len(FormulaWrites) = Len(formulas)
      /\ \A i \in DOMAIN formulas :
           /\ FormulaWrites[i].arg = formulas[i].key
           /\ FormulaWrites[i].ok # "pending"

\* the first formula write fails on exhausted 429s, the second one is made
C10_Witness ==
    /\ pc = "returned"
    /\ WriteAndFormatsOk
    /\ Len(formulas) = 2
    /\ FormulaWrites[1].ok = "raised"
    /\ FormulaWrites[1].exc.status_code = RATE_LIMIT_STATUS
    /\ FormulaWrites[2].ok = "ok"


\* the formula writes that raised, in the order they were made
FailedFormulaWrites == SelectSeq(FormulaWrites, LAMBDA e : e.ok = "raised")

\* C11: when the literal write and the formatting calls have succeeded, the
\* returned status is "success" if no formula write failed and
\* "partial_success" otherwise, also when every one of them failed; the
\* returned error list holds exactly the coordinates whose write failed, each
\* once, in order, with the error of that write, and no coordinate whose
\* write succeeded.
C11_PartialSuccessListsExactlyFailures ==
    (pc = "returned" /\ WriteAndFormatsOk) =>
      /\ result.status =
           IF FailedFormulaWrites = <<>> THEN "success" ELSE "partial_success"
      /\ Len(result.errors) = Len(FailedFormulaWrites)
      /\ \A i \in DOMAIN result.errors :
           /\ result.errors[i].ref = FailedFormulaWrites[i].arg
           /\ result.errors[i].exc = FailedFormulaWrites[i].exc
      /\ \A i, j \in DOMAIN result.errors :
           i # j => result.errors[i].ref # result.errors[j].ref
      /\ \A i \in DOMAIN FormulaWrites :
           FormulaWrites[i].ok = "ok" =>
             \A j \in DOMAIN result.errors : result.errors[j].ref # FormulaWrites[i].arg

\* two of three formula writes failed, the one in between succeeded
C11_Witness ==
    /\ pc = "returned"
    /\ WriteAndFormatsOk
    /\ Len(FormulaWrites) = 3
    /\ FormulaWrites[1].ok = "raised"
    /\ FormulaWrites[2].ok = "ok"
    /\ FormulaWrites[3].ok = "raised"
    /\ result.status = "partial_success"
    /\ Len(result.errors) = 2


\* the place of a remote operation in the order of lines 246-272 (0: a call
\* made before the first write)
OpRank(op) ==
    CASE op = "update" -> 1
      [] op = "set_basic_filter" -> 2
      [] op = "freeze" -> 3
      [] op = "format" -> 4
      [] op = "update_acell" -> 5
      [] OTHER -> 0

\* C12: the remote operations of one call are issued one after another in
\* the order bulk literal write, set-filter, freeze, bold-header format,
\* formula writes; each of the first four at most once; the formula writes
\* follow the row-major order of the formula cells of the grid; and an
\* operation is issued only when the one before it has ended (returned or
\* raised after all its retries).
C12_OperationsInSequence ==
    /\ \A i, j \in DOMAIN log :
         i < j =>
           /\ OpRank(log[i].op) <= OpRank(log[j].op)
           /\ (OpRank(log[i].op) = OpRank(log[j].op) /\ OpRank(log[i].op) > 0)
                => log[i].op = "update_acell"
    /\ \A i \in DOMAIN log : i < Len(log) => log[i].ok # "pending"
    /\ \A i \in DOMAIN log :
         log[i].ok = "pending" => (i = Len(log) /\ wpc # "idle")
    /\ LET cells == FormulaCellsOf(data_and_formulas) IN
       \A i \in DOMAIN FormulaWrites :
         /\ i <= Len(cells)
         /\ FormulaWrites[i].arg = CellRef(cells[i].row_idx, cells[i].col_idx)

\* all five kinds of operation were made, two of them formula writes in
\* different rows, and the second formula write is being retried
C12_Witness ==
    /\ Ended("update", "ok")
    /\ Ended("set_basic_filter", "ok")
    /\ Ended("freeze", "ok")
    /\ Ended("format", "ok")
    /\ Len(FormulaWrites) = 2
    /\ FormulaWrites[1].ok = "raised"
    /\ FormulaWrites[2].ok = "pending"
    /\ FormulaWrites[1].arg[2] # FormulaWrites[2].arg[2]
    /\ sleeps # <<>>


IssuedOp(op) == \E i \in DOMAIN log : log[i].op = op

\* C16: after a successful literal write, a freeze call is issued if and
\* only if freeze_rows > 0 (none for 0, none for a negative value), a
\* set-filter call if and only if set_basic_filter is set, and a bold-format
\* call if and only if set_bold_header is set.
C16_FormattingCallsIffRequested ==
    /\ IssuedOp("set_basic_filter") => set_basic_filter
    /\ IssuedOp("freeze") => freeze_rows > 0
    /\ IssuedOp("format") => set_bold_header
    /\ (pc = "returned" /\ result.status \in {"success", "partial_success"}) =>
         /\ set_basic_filter => IssuedOp("set_basic_filter")
         /\ freeze_rows > 0 => IssuedOp("freeze")
         /\ set_bold_header => IssuedOp("format")


BulkAndFormatSites == {"update_data", "set_basic_filter", "freeze_rows", "set_bold_header"}

\* C18: a single-cell formula write is attempted at most 3 times, and after
\* 3 rate-limit errors in a row it ends as failed; the bulk literal write and
\* each formatting call are attempted at most 5 times; each of these calls
\* starts its own backoff from a delay of 1 second.
C18_RetryBudgets ==
    (pc \in BulkAndFormatSites \cup {"update_cell_formula"}) =>
      /\ wpc # "idle"
      /\ pc = "update_cell_formula" => Len(outcomes) <= 3
      /\ pc \in BulkAndFormatSites => Len(outcomes) <= 5
      /\ (pc = "update_cell_formula" /\ Count429(outcomes) = 3 /\ wpc = "done")
           => (wresult.kind = "raise" /\ Is429(wresult))
      /\ (pc \in BulkAndFormatSites /\ Count429(outcomes) = 5 /\ wpc = "done")
           => (wresult.kind = "raise" /\ Is429(wresult))
      /\ outcomes = <<>> => (delay = 1 /\ sleeps = <<>>)
      /\ \A i \in DOMAIN sleeps : sleeps[i] = Pow2(i - 1)

\* a second formula write has used up its three attempts on 429s after the
\* literal write had needed all five of its own
C18_Witness ==
    /\ pc = "update_cell_formula"
    /\ fidx = 2
    /\ wpc = "done"
    /\ Count429(outcomes) = 3
    /\ sleeps = <<1, 2, 4>>
    /\ wresult.kind = "raise"

\* the bulk write succeeded at its fifth attempt
C18_WitnessBulk ==
    /\ pc = "update_data"
    /\ wpc = "done"
    /\ Len(outcomes) = 5
    /\ wresult.kind = "return"


\* =================================================================
\* Properties of the argument validation (checked under SpecValidate)
\* =================================================================
\* the grid is empty, is not a list, or has a row that is not a list
GridRejected(data) ==
    \/ data.t # "list"
    \/ data.v = <<>>
    \/ \E r \in DOMAIN data.v : data.v[r].t # "list"

\* the url is empty or not a string
UrlRejected(url) == url.t # "str" \/ url.v = <<>>

\* C13: a request whose grid is empty, is not a list or contains a row that
\* is not a list, or whose spreadsheet_url is empty or not a string, is
\* answered with status "error" and no external call is ever made for it: no
\* client initialisation, no open, no write.
C13_InvalidRequestMakesNoCall ==
    (GridRejected(data_and_formulas) \/ UrlRejected(spreadsheet_url)) =>
      /\ pc \in {"called", "returned"}
      /\ log = <<>>
      /\ wpc = "idle"
      /\ pc = "returned" => (result.status = "error" /\ result.message # <<>>)

\* a grid whose second row is not a list was turned down, the url being fine
C13_Witness ==
    /\ pc = "returned"
    /\ ~UrlRejected(spreadsheet_url)
    /\ data_and_formulas.t = "list"
    /\ Len(data_and_formulas.v) = 2
    /\ data_and_formulas.v[1].t = "list"
    /\ data_and_formulas.v[2].t # "list"
    /\ result.status = "error"
    /\ log = <<>>


\* =================================================================
\* Properties of the header range (checked under SpecUneven)
\* =================================================================
\* the number of the last column present in the grid: the length of its
\* longest row
GridWidth(grid) ==
    LET lens == {Len(grid.v[r].v) : r \in DOMAIN grid.v} IN
    CHOOSE w \in lens : \A x \in lens : x <= w

\* C17: the range sent to the bold-format call is A1:<L>1, where <L> is
\* the column name of the last column present in the grid, also for grids
\* wider than 26 columns, grids whose first row is shorter than a later row
\* and grids whose first row is empty.
C17_BoldRangeSpansGrid ==
    \A i \in DOMAIN log :
      log[i].op = "format" =>
        log[i].arg = <<ORD_A, ORD_ONE, ORD_COLON>>
                       \o get_column_name(GridWidth(data_and_formulas))
                       \o <<ORD_ONE>>


\* =================================================================
\* Properties of the worksheet lookup (checked under SpecLookup)
\* =================================================================
NameGiven == worksheet_name.t = "str" /\ worksheet_name.v # <<>>

\* the add_worksheet calls that succeeded
Created == SelectSeq(log, LAMBDA e : e.op = "add_worksheet" /\ e.ok = "ok")

\* the worksheets the spreadsheet had before the call
Existing == SubSeq(titles, 1, Len(titles) - Len(Created))

\* the worksheets of the spreadsheet that have the title asked for
Matching == {i \in DOMAIN Existing : Existing[i] = worksheet_name.v}

FirstRowLen == Len(data_and_formulas.v[1].v)

\* the lookup contract, for a given number of columns of a created sheet
LookupContract(cols) ==
    /\ (NameGiven /\ Matching # {}) =>
         /\ ~IssuedOp("add_worksheet")
         /\ worksheet # 0 => (worksheet \in Matching /\ \A i \in Matching : worksheet <= i)
    /\ (NameGiven /\ Matching = {}) =>
         /\ Cardinality({i \in DOMAIN log : log[i].op = "add_worksheet"}) <= 1
         /\ worksheet # 0 =>
              /\ Len(Created) = 1
              /\ worksheet = Len(titles)
              /\ titles[worksheet] = worksheet_name.v
              /\ Created[1].arg = <<Len(data_and_formulas.v), cols>>
    /\ ~NameGiven =>
         /\ ~IssuedOp("add_worksheet")
         /\ ~IssuedOp("worksheets")
         /\ worksheet # 0 => worksheet = 1
    /\ IssuedOp("update") => (worksheet # 0 /\ Len(titles) <= Len(Existing) + 1)

\* C19 as stated: with a name given the first worksheet with exactly that
\* title is the target and none is created; with no match exactly one
\* worksheet is created with that name, rows = number of grid rows and
\* cols = length of the first grid row, and it is the target; with no name
\* the first existing worksheet is the target and none is created.
C19_CreatedWithFirstRowLength == LookupContract(FirstRowLen)

\* C19 amended: as stated, except that a worksheet created for a grid whose
\* first row is empty gets cols = 1, not 0.
C19_CreatedWithFirstRowLengthOrOne ==
    LookupContract(IF FirstRowLen = 0 THEN 1 ELSE FirstRowLen)

\* a worksheet was created for a grid of two rows whose first row is empty,
\* and the literal write went to it
C19_Witness ==
    /\ NameGiven
    /\ Matching = {}
    /\ FirstRowLen = 0
    /\ Len(Created) = 1
    /\ Created[1].arg = <<2, 1>>
    /\ Ended("update", "ok")
    /\ worksheet = Len(titles)

\* the second and third worksheet have the title asked for; the second one
\* was written to
C19_WitnessDuplicates ==
    /\ NameGiven
    /\ Matching = {2, 3}
    /\ worksheet = 2
    /\ Ended("update", "ok")


\* =================================================================
\* Properties of get_column_name (checked under SpecColumn)
\* =================================================================
\* the column number a name stands for in bijective base 26: A..Z are the
\* digits 1..26, the last letter counts units
RECURSIVE ColumnNumber(_)
ColumnNumber(name) ==
    IF name = <<>> THEN 0
    ELSE 26 * ColumnNumber(SubSeq(name, 1, Len(name) - 1)) + (name[Len(name)] - 64)

Letters(str) == \A i \in DOMAIN str : str[i] \in 65 .. 90

\* C20: get_column_name(n) is the bijective base-26 column name of the
\* column number n: a string of letters A..Z whose value is n; it is "A"
\* for 1, "Z" for 26, "AA" for 27, "AZ" for 52, "BA" for 53; it is "" only
\* for n = 0; and no other column number of the range gets the same name.
C20_ColumnNameIsBijectiveBase26 ==
    pc = "column_named" =>
      /\ Letters(col_name)
      /\ ColumnNumber(col_name) = col_n
      /\ col_n = 1 => col_name = <<65>>
      /\ col_n = 26 => col_name = <<90>>
      /\ col_n = 27 => col_name = <<65, 65>>
      /\ col_n = 52 => col_name = <<65, 90>>
      /\ col_n = 53 => col_name = <<66, 65>>
      /\ col_name = <<>> <=> col_n = 0
      /\ \A m \in 1 .. MaxColumn : m # col_n => get_column_name(m) # col_name

\* the first three-letter name, AAA, was given to column 703
C20_Witness ==
    /\ pc = "column_named"
    /\ col_n = 703
    /\ col_name = <<65, 65, 65>>


\* =================================================================
\* Properties of the four tools (checked under SpecTools)
\* =================================================================
ToolNames ==
    {"create_google_sheet", "update_google_sheet", "get_google_sheet", "list_google_sheets"}

\* C14: for each of the four tools, whatever remote call fails at whatever
\* step, no exception leaves the tool function: the call ends only by
\* returning a dictionary with a status in {success, partial_success, error}
\* and a message; a failed remote call other than a formula write ends the
\* call at once with status "error".
C14_NoExceptionEscapes ==
    /\ tool \in ToolNames
    /\ pc # "escaped"
    /\ pc = "returned" =>
         /\ result.status \in {"success", "partial_success", "error"}
         /\ result.message # <<>>
    /\ ~ENABLED NextTools => pc = "returned"
    /\ \A i \in DOMAIN log :
         (log[i].ok = "raised" /\ log[i].op # "update_acell") =>
           (i = Len(log) /\ pc = "returned" /\ result.status = "error")

\* the listing of list_google_sheets failed with an error that is not an
\* APIError, after the client had been set up
C14_Witness ==
    /\ tool = "list_google_sheets"
    /\ pc = "returned"
    /\ result.status = "error"
    /\ Len(log) = 2
    /\ log[1].ok = "ok"
    /\ log[2].op = "list_spreadsheet_files"
    /\ log[2].ok = "raised"
    /\ log[2].exc.cls = "Exception"

\* the share call of create_google_sheet failed
C14_WitnessShare ==
    /\ tool = "create_google_sheet"
    /\ pc = "returned"
    /\ result.status = "error"
    /\ Len(log) = 3
    /\ log[2].op = "create"
    /\ log[2].ok = "ok"
    /\ log[3].op = "share"
    /\ log[3].ok = "raised"

\* the calls of the log that have just ended with a rate-limit error
JustRateLimited ==
    {i \in DOMAIN log' :
       /\ log'[i].ok = "raised"
       /\ log'[i].exc.cls = "APIError"
       /\ log'[i].exc.status_code = RATE_LIMIT_STATUS
       /\ (i > Len(log) \/ log[i].ok = "pending")}

\* C15: every call to the service goes through the retry wrapper: when a
\* call ends with a rate-limit error, the wrapper has run it, has slept and
\* retried, and has used up the retry budget of that call.
C15_Every429IsRetried ==
    [][JustRateLimited # {} =>
         /\ wpc = "done"
         /\ sleeps # <<>>
         /\ Count429(outcomes) = max_retries]_vars


\* =================================================================
\* Properties of the writes of update_google_sheet (checked under SpecWrites)
\* =================================================================
\* C24: if the literal write succeeded and a set-filter, freeze or
\* bold-format call then fails, the call returns status "error" (not
\* "partial_success"), no formatting call and no formula write is issued
\* after the failed one, and the literal write stays done.
C24_FormatFailureIsError ==
    \A i \in DOMAIN log :
      (log[i].op \in FormatOps /\ log[i].ok = "raised") =>
        /\ Ended("update", "ok")
        /\ pc = "returned"
        /\ result.status = "error"
        /\ i = Len(log)
        /\ ~IssuedOp("update_acell")

\* the freeze call failed after the literal write and the filter had
\* succeeded, with a bold header and formulas still to come
C24_Witness ==
    /\ pc = "returned"
    /\ result.status = "error"
    /\ Ended("update", "ok")
    /\ Ended("set_basic_filter", "ok")
    /\ Ended("freeze", "raised")
    /\ set_bold_header
    /\ formulas # <<>>

\* C26: a returned status "success" implies that the literal write
\* succeeded, every formatting call asked for was made and succeeded, every
\* recorded formula entry was written and its write succeeded, and no remote
\* call of the log has failed.
C26_SuccessMeansAllWritten ==
    (pc = "returned" /\ result.status = "success") =>
      /\ Ended("update", "ok")
      /\ set_basic_filter => Ended("set_basic_filter", "ok")
      /\ freeze_rows > 0 => Ended("freeze", "ok")
      /\ set_bold_header => Ended("format", "ok")
      /\ Len(FormulaWrites) = Len(formulas)
      /\ Len(FormulaWrites) = Len(FormulaCellsOf(data_and_formulas))
      /\ \A i \in DOMAIN FormulaWrites :
           FormulaWrites[i].arg = formulas[i].key /\ FormulaWrites[i].ok = "ok"
      /\ \A i \in DOMAIN log : log[i].ok = "ok"

\* success after three formula writes and all three formatting calls
C26_Witness ==
    /\ pc = "returned"
    /\ result.status = "success"
    /\ Len(FormulaWrites) = 3
    /\ Ended("set_basic_filter", "ok")
    /\ Ended("freeze", "ok")
    /\ Ended("format", "ok")


\* =================================================================
\* More properties of one wrapped call (checked under SpecBackoff)
\* =================================================================
\* C25: the wrapper sleeps after every 429, the one of its last attempt
\* included: whenever it is not just about to sleep, the number of sleeps
\* equals the number of 429 failures seen; when all max_retries attempts
\* raised 429 it raises after exactly max_retries sleeps that total
\* initial_delay * (2^max_retries - 1), which is 31 for max_retries = 5 and
\* initial_delay = 1.
C25_SleepsAfterFinalAttempt ==
    /\ wpc \in {"loop", "done"} => Len(sleeps) = Count429(outcomes)
    /\ wpc = "sleep" => Len(sleeps) = Count429(outcomes) - 1
    /\ ( /\ wpc = "done"
         /\ max_retries >= 1
         /\ Count429(outcomes) = max_retries )
       => /\ wresult.kind = "raise"
          /\ Len(sleeps) = max_retries
          /\ SumSeq(sleeps) = initial_delay * (Pow2(max_retries) - 1)
          /\ (max_retries = 5 /\ initial_delay = 1) => SumSeq(sleeps) = 31

\* five attempts, five 429s, five sleeps of 31 seconds in all, then the raise
C25_Witness ==
    /\ wpc = "done"
    /\ max_retries = 5
    /\ initial_delay = 1
    /\ Count429(outcomes) = 5
    /\ sleeps = <<1, 2, 4, 8, 16>>
    /\ wresult.kind = "raise"


\* =================================================================
\* More properties of the four tools (checked under SpecTools)
\* =================================================================
\* C21: get_google_sheet never creates a worksheet; with a name given that
\* no existing worksheet has as its title it returns status "error" and
\* reads no data; and when open_by_url fails, get_google_sheet and
\* update_google_sheet return status "error" and make no call after it.
C21_GetNeverCreates ==
    /\ tool = "get_google_sheet" => ~IssuedOp("add_worksheet")
    /\ ( /\ tool = "get_google_sheet"
         /\ NameGiven
         /\ \A i \in DOMAIN titles : titles[i] # worksheet_name.v )
       => /\ ~IssuedOp("get_all_values")
          /\ Ended("worksheets", "ok") => (pc = "returned" /\ result.status = "error")
    /\ \A i \in DOMAIN log :
         (log[i].op = "open_by_url" /\ log[i].ok = "raised") =>
           /\ tool \in {"get_google_sheet", "update_google_sheet"}
           /\ i = Len(log)
           /\ pc = "returned"
           /\ result.status = "error"

\* the worksheet asked for was not among the listed ones
C21_Witness ==
    /\ tool = "get_google_sheet"
    /\ NameGiven
    /\ \A i \in DOMAIN titles : titles[i] # worksheet_name.v
    /\ Ended("worksheets", "ok")
    /\ pc = "returned"
    /\ result.status = "error"

\* open_by_url failed in update_google_sheet
C21_WitnessOpen ==
    /\ tool = "update_google_sheet"
    /\ Ended("open_by_url", "raised")
    /\ pc = "returned"


EmptyStr(x) == x.t = "str" /\ x.v = <<>>

\* C27: create_google_sheet returns status "success", with spreadsheet_url,
\* only if both the create call and the share call succeeded; if create
\* succeeds and share fails the result is status "error" without
\* spreadsheet_url, the spreadsheet having been created; with an empty
\* title or an empty share_with no remote call is made.
C27_CreateSucceedsOnlyWithShare ==
    tool = "create_google_sheet" =>
      /\ (pc = "returned" /\ result.status = "success") =>
           /\ result.has_url
           /\ Ended("create", "ok")
           /\ Ended("share", "ok")
      /\ result.has_url => result.status = "success"
      /\ (Ended("create", "ok") /\ Ended("share", "raised")) =>
           /\ pc = "returned"
           /\ result.status = "error"
           /\ ~result.has_url
      /\ (EmptyStr(title) \/ EmptyStr(share_with)) =>
           /\ log = <<>>
           /\ wpc = "idle"
           /\ pc = "returned" => result.status = "error"

\* the spreadsheet was created, sharing it failed
C27_Witness ==
    /\ tool = "create_google_sheet"
    /\ Ended("create", "ok")
    /\ Ended("share", "raised")
    /\ pc = "returned"
    /\ result.status = "error"

\* a call with a title and an empty share_with was turned down
C27_WitnessEmptyShare ==
    /\ tool = "create_google_sheet"
    /\ ~EmptyStr(title)
    /\ title.t = "str"
    /\ EmptyStr(share_with)
    /\ pc = "returned"


\* the number of items of a page: none from offset >= total on, else what
\* is left after offset, cut at limit if there is one
PageSize(total, off, lim) ==
    IF off >= total THEN 0
    ELSE IF lim = NoneVal \/ lim.v[1] > total - off THEN total - off
    ELSE lim.v[1]

\* C28: for list_google_sheets with offset >= 0 and limit absent or >= 0,
\* total_count is the number of all matching spreadsheets; the returned
\* list is the contiguous part of the full list that starts at offset
\* (empty when offset >= total_count) and has at most limit items; and
\* has_more is true exactly when offset + number returned < total_count.
C28_PaginationIsASlice ==
    ( /\ tool = "list_google_sheets"
      /\ pc = "returned"
      /\ result.status = "success"
      /\ offset.t = "int" /\ offset.v[1] >= 0
      /\ (limit = NoneVal \/ limit.v[1] >= 0) )
    => LET off == offset.v[1]
           page == payload.spreadsheets
       IN /\ payload.total_count = files
          /\ Len(page) = PageSize(files, off, limit)
          /\ \A k \in DOMAIN page : page[k] = off + k
          /\ limit # NoneVal => Len(page) <= limit.v[1]
          /\ payload.has_more <=> (off + Len(page) < files)

\* the second of three spreadsheets was returned alone; one more follows
C28_Witness ==
    /\ tool = "list_google_sheets"
    /\ pc = "returned"
    /\ result.status = "success"
    /\ files = 3
    /\ offset = PyInt(1)
    /\ limit = PyInt(1)
    /\ payload.spreadsheets = <<2>>
    /\ payload.has_more

\* an offset past the end, without limit
C28_WitnessPastEnd ==
    /\ tool = "list_google_sheets"
    /\ pc = "returned"
    /\ files = 2
    /\ offset = PyInt(3)
    /\ limit = NoneVal
    /\ payload.spreadsheets = <<>>
    /\ payload.total_count = 2


\* =================================================================
\* Properties of the backoff decorator of server.py (checked under
\* SpecServerBackoff)
\* =================================================================
IsAPIRaise(o) == o.kind = "raise" /\ o.exc.cls = "APIError"

\* C30: the decorator of server.py retries after every API error whatever
\* its status; it invokes the operation at most 6 times and sleeps 1, 2, 4,
\* 8, 16, 32 after the failures, also after the 6th; when all 6 invocations
\* raised an API error it raises a generic exception that wraps the last API
\* error, not that error itself; an error that is not an API error
\* propagates at once, without sleep or retry.
C30_ServerBackoffRetriesAnyAPIError ==
    /\ Len(outcomes) <= 6
    /\ \A k \in DOMAIN outcomes : k < Len(outcomes) => IsAPIRaise(outcomes[k])
    /\ \A k \in DOMAIN sleeps : sleeps[k] = Pow2(k - 1)
    /\ Len(sleeps) = Cardinality({k \in DOMAIN outcomes : IsAPIRaise(outcomes[k])})
                       - (IF wpc = "bar_sleep" THEN 1 ELSE 0)
    /\ wpc = "bar_done" =>
         IF IsAPIRaise(outcomes[Len(outcomes)])
           THEN /\ Len(outcomes) = 6
                /\ sleeps = <<1, 2, 4, 8, 16, 32>>
                /\ wresult.kind = "raise"
                /\ wresult.exc.cls = "Exception"
                /\ wresult.exc.wraps = outcomes[6].exc
                /\ wresult.exc # outcomes[6].exc
           ELSE /\ wresult = outcomes[Len(outcomes)]
                /\ Len(sleeps) = Len(outcomes) - 1

\* six API errors, the 429s mixed with other statuses, then the generic
\* exception
C30_Witness ==
    /\ wpc = "bar_done"
    /\ Len(outcomes) = 6
    /\ outcomes[1].exc.status_code # RATE_LIMIT_STATUS
    /\ outcomes[2].exc.status_code = RATE_LIMIT_STATUS
    /\ IsAPIRaise(outcomes[6])
    /\ outcomes[6].exc.status_code # RATE_LIMIT_STATUS
    /\ sleeps = <<1, 2, 4, 8, 16, 32>>
    /\ wresult.exc.cls = "Exception"

\* an error that is not an API error ended the call at the third invocation
C30_WitnessOther ==
    /\ wpc = "bar_done"
    /\ Len(outcomes) = 3
    /\ outcomes[3].kind = "raise"
    /\ outcomes[3].exc.cls = "Exception"
    /\ wresult = outcomes[3]
    /\ sleeps = <<1, 2>>


\* =================================================================
\* Termination and budgets of update_google_sheet (checked under
\* SpecWritesFair)
\* =================================================================
LiteralAndFormatOps == {"update"} \cup FormatOps

IssuedCalls(ops) == SelectSeq(log, LAMBDA e : e.op \in ops)

\* the attempts the calls issued so far may take at most
IssuedBudget == 5 * Len(IssuedCalls(LiteralAndFormatOps)) + 3 * Len(FormulaWrites)

AttemptsWithinBudget ==
    /\ pc \in {"update_data", "set_basic_filter", "freeze_rows", "set_bold_header"}
         => Len(outcomes) <= 5
    /\ pc = "update_cell_formula" => Len(outcomes) <= 3
    /\ \A op \in LiteralAndFormatOps : Len(IssuedCalls({op})) <= 1
    /\ Len(FormulaWrites) <= Len(FormulaCellsOf(data_and_formulas))
    /\ IssuedBudget <= 20 + 3 * Len(FormulaCellsOf(data_and_formulas))
    /\ (wpc = "done" /\ outcomes # <<>> /\ Count429(outcomes) = Len(outcomes))
         => /\ wresult.kind = "raise"
            /\ Len(outcomes) = IF pc = "update_cell_formula" THEN 3 ELSE 5

\* C29: every update_google_sheet call ends with a result when each remote
\* call returns or raises; the literal write and each of the up to three
\* formatting calls take at most 5 attempts and every formula write at most
\* 3, so a grid with F formula cells costs at most 20 + 3*F invocations; a
\* call answered 429 every time gives up when its attempts are used.
C29_UpdateTerminatesWithinBudget ==
    /\ []AttemptsWithinBudget
    /\ <>(pc = "returned" /\ result # NoResult)

\* the third formula of a grid was answered 429 three times after the
\* literal write and all three formatting calls
C29_Witness ==
    /\ pc = "update_cell_formula"
    /\ wpc = "done"
    /\ fidx = 3
    /\ Len(outcomes) = 3
    /\ Count429(outcomes) = 3
    /\ Len(IssuedCalls(LiteralAndFormatOps)) = 4
    /\ IssuedBudget = 29

\* the literal write was answered 429 five times
C29_WitnessLiteral ==
    /\ pc = "update_data"
    /\ wpc = "done"
    /\ Len(outcomes) = 5
    /\ Count429(outcomes) = 5
    /\ wresult.kind = "raise"


\* =================================================================
\* Properties of several tool calls in one process (checked under SpecTasks)
\* =================================================================
\* the 429s a coroutine's current (or last) wrapped call has slept for
SleptFor(t) == Count429(t.outcomes) - (IF t.wpc = "sleep" THEN 1 ELSE 0)

\* C22: the retry state belongs to one wrapped call: each wrapped call
\* starts at attempt 0 with delay = initial_delay whatever earlier wrapped
\* calls did, and in every interleaving of the tool calls the attempts and
\* the delays of a call are given by the 429s that call itself received,
\* not by those of another call.
C22_RetryStateIsPrivate ==
    \A c \in DOMAIN tasks :
      LET t == tasks[c] IN
      /\ t.sleeps = [k \in 1 .. SleptFor(t) |-> INITIAL_DELAY * Pow2(k - 1)]
      /\ Len(t.outcomes) <= Count429(t.outcomes) + 1
      /\ t.wpc # "idle" =>
           /\ t.retry = SleptFor(t)
           /\ t.delay = INITIAL_DELAY * Pow2(SleptFor(t))
      /\ (t.wpc = "loop" /\ t.outcomes = <<>>) =>
           /\ t.retry = 0
           /\ t.delay = INITIAL_DELAY

\* the first call is in the first sleep of its second wrapped call, of 1
\* second, while the second call, suspended at an await, has slept 1, 2, 4
\* and 8 in its own wrapped call
C22_Witness ==
    /\ tasks[1].at = "get_worksheet_data"
    /\ tasks[1].wpc = "sleep"
    /\ Len(tasks[1].outcomes) = 1
    /\ tasks[1].delay = 1
    /\ tasks[2].at = "info_retrieving"
    /\ tasks[2].sleeps = <<1, 2, 4, 8>>

\* C23: the backoff sleep blocks the server: while a tool call is inside
\* time.sleep the thread stays with it and no step changes another tool
\* call, so no remote call of another tool call is issued before the sleep
\* ends.
C23_SleepBlocksOtherCalls ==
    [][\A c \in DOMAIN tasks :
         tasks[c].wpc = "sleep" =>
           /\ running = c
           /\ \A d \in DOMAIN tasks \ {c} : tasks'[d] = tasks[d]]_vars

\* one call sleeps while the other, suspended after its first await, has
\* its first remote call ahead
C23_Witness ==
    /\ tasks[1].wpc = "sleep"
    /\ tasks[1].sleeps = <<1>>
    /\ running = 1
    /\ tasks[2].at = "init_gspread_client"
    /\ tasks[2].wpc = "idle"

====
